---- MODULE Spec2Model ----
(***************************************************************************)
(* The DatasetActor of blkcaptwrk (blkcaptwrk/src/actors/dataset.rs): one  *)
(* dataset's snapshot list, its snapshot and prune ticks, the hold records *)
(* of its sender and holder children, and its start and stop hooks.        *)
(***************************************************************************)
EXTENDS Integers, Sequences, FiniteSets, TLC

\* ------------------------------------------------------------------ bounds
MaxTime == 2          \* the clock runs over 0..MaxTime
MaxMailbox == 1       \* messages waiting in the mailbox
MaxActors == 2        \* child actors the dataset actor creates
MaxInvocations == 2   \* invocations of the observation envelope
MaxPools == 2         \* pools in the worker's entity state
MaxRounds == 2        \* rounds of the worker's job loop that find a ready job
MaxSubvolumes == 3    \* subvolumes the container ever receives

\* ------------------------------------------------------------- vocabulary
\* Option<T>: the empty sequence is None, a one-element sequence is Some(x)
None == << >>
Some(x) == << x >>

\* the subvolumes that the snapshot container directory may hold at startup
DiskSubvolumes ==
    { [uuid |-> 1, datetime |-> 0, path |-> <<"snapshots", 0>>],
      [uuid |-> 2, datetime |-> 1, path |-> <<"snapshots", 1>>] }

\* the directory is empty, or holds the younger subvolume, or both
InitialDisks ==
    { D \in SUBSET DiskSubvolumes : \A v \in D : \A w \in DiskSubvolumes :
                                       w.datetime >= v.datetime => w \in D }

\* the instant the actor is constructed: no snapshot on disk is younger
StartTime ==
    CHOOSE t \in 0..MaxTime :
        /\ \A v \in DiskSubvolumes : v.datetime <= t
        /\ \E v \in DiskSubvolumes : v.datetime = t
FarFuture == MaxTime + 1

FirstNewUuid == Cardinality(DiskSubvolumes) + 1
ActorIds == 1..MaxActors

\* a schedule model: the instants t with t % period = 0 and t <= last; a
\* model with period 0 cannot be converted to a cron schedule
ScheduleBad == [period |-> 0, last |-> 0]
ScheduleEvery == [period |-> 1, last |-> FarFuture]
ScheduleOnce == [period |-> 1, last |-> StartTime + 1]
ScheduleModels == {ScheduleBad, ScheduleEvery, ScheduleOnce}
EvaluationModels == {ScheduleBad, ScheduleEvery}

\* retention rules: buckets of <<interval, count>>, a minimum newest-count
RuleRecent == [buckets |-> << <<1, 1>> >>, newest |-> 0]
RetentionModels ==
    { [rule |-> RuleRecent, evaluation_schedule |-> s] : s \in EvaluationModels }

\* BtrfsDatasetEntity, as far as the actor reads it. The schedule of a
\* disabled feature is never read: it is missing, except in the one model
\* that has both features disabled and both schedules configured
RetentionEvery == [rule |-> RuleRecent, evaluation_schedule |-> ScheduleEvery]
DatasetModels ==
    { m \in [ snapshotting : BOOLEAN,
              snapshot_schedule : {None} \cup { Some(s) : s \in ScheduleModels },
              pruning : BOOLEAN,
              snapshot_retention : {None} \cup { Some(r) : r \in RetentionModels } ] :
        \/ /\ ~m.snapshotting => m.snapshot_schedule = None
           /\ ~m.pruning => m.snapshot_retention = None
        \/ /\ ~m.snapshotting /\ m.snapshot_schedule = Some(ScheduleEvery)
           /\ ~m.pruning /\ m.snapshot_retention = Some(RetentionEvery) }

\* the health-check observer: observed entities and events
Entities == {"D1", "D2"}
Events == {"DatasetSnapshot", "DatasetPrune"}

\* the operations the envelope is invoked for
Operations ==
    { << "D1", "DatasetSnapshot" >>, << "D1", "DatasetPrune" >>,
      << "D2", "DatasetSnapshot" >> }

\* HealthchecksObservation
Observation(entity_id, event, healthcheck_id) ==
    [entity_id |-> entity_id, event |-> event, healthcheck_id |-> healthcheck_id]

\* HealthchecksObserverEntity.observations: none, one, or several of which
\* two observe the same event of the same entity
ObservationLists ==
    { << >>,
      << Observation("D1", "DatasetSnapshot", "hc1") >>,
      << Observation("D1", "DatasetSnapshot", "hc1"),
         Observation("D1", "DatasetPrune", "hc2"),
         Observation("D1", "DatasetSnapshot", "hc3"),
         Observation("D2", "DatasetSnapshot", "hc4") >> }

\* HealthchecksObserverEntity.custom_url: none, a url, or text that is no url
CustomUrls == {None, Some("http://hc.local/"), Some("hc local/")}

\* HealthchecksObserverEntity.heartbeat, with its frequency in clock ticks
HeartbeatModels ==
    {None} \cup { Some([healthcheck_id |-> "hc9", frequency |-> f]) : f \in 1..2 }

\* the results of the work an envelope wraps
WorkResults == { [ok |-> TRUE, value |-> "done"], [ok |-> FALSE, value |-> "e"] }

VARIABLES
    model,               \* the dataset entity: feature states, schedules, retention
    now,                 \* the wall clock
    status,              \* "new", "running", "joining", "stopped", "panicked"
    terminal,            \* the terminal state reported by stopped, or None
    snapshots,           \* DatasetActor.snapshots
    snapshot_schedule,   \* DatasetActor.snapshot_schedule
    prune_schedule,      \* DatasetActor.prune_schedule
    active_sends_holds,  \* DatasetActor.active_sends_holds
    mailbox,             \* the actor's FIFO mailbox
    timers,              \* send_later messages not yet delivered
    pc,                  \* position of the handler in progress
    cur,                 \* the request whose handler awaits its child's start
    children,            \* child actor id -> "unborn", "starting", "live", "failed",
                         \* "stopping" or "stopped"
    active_actors,       \* the children stopped() is joining
    ready,               \* replies the handler that ran last posted to a ready sink
    published,           \* events the handler that ran last published
    disk,                \* uuids of the snapshots that exist on the filesystem
    nextUuid,            \* uuid the filesystem gives the next snapshot
    last,                \* what the handler that ran last returned
    router,              \* HealthchecksActor.router: its observations
    emitter,             \* HealthchecksActor.emitter: its base url
    heartbeat_config,    \* HealthchecksActor.heartbeat_config
    observer_status,     \* "none", "new", "running", "failed", "stopped",
                         \* "panicked: uri" or "panicked: heartbeat"
    observer_mailbox,    \* the observer's FIFO mailbox
    observer_clock,      \* the clock of the observer's interval timer
    interval_due,        \* the instant the send_interval timer is due, or None
    pings,               \* the pings emitted for observed events, in order
    heartbeat_pings,     \* the pings emitted for heartbeats, in order
    emitted,             \* the results of the emits of the handler that ran last
    call,                \* the envelope invocation in progress, or None
    call_pc,             \* the steps of observable_func the invocation has taken
    work_result,         \* the result of the invocation's work, or None
    call_published,      \* the events the invocation has published
    returned,            \* what the invocation returned to its caller, or None
    invocations,         \* the envelope invocations begun
    applied,             \* the function applied last, its arguments and result
    worker,              \* the worker's service(): its entities and its progress
    filesystem,          \* the subvolumes of the container's pool filesystem
    sync_actor,          \* the SyncActor of one (dataset, container) pair
    registry,            \* Entities: the attached pools, and what attach_pool returned
    cached               \* the cached dataset model and the disk it reads

\* the state of the DatasetActor and of its children
dataset == << model, now, status, terminal, snapshots, snapshot_schedule,
              prune_schedule, active_sends_holds, mailbox, timers, pc, cur,
              children, active_actors, ready, published, disk, nextUuid, last >>

\* the state of the observer
observer == << router, emitter, heartbeat_config, observer_status,
               observer_mailbox, observer_clock, interval_due, pings,
               heartbeat_pings, emitted >>

\* the state of the observation envelope and of its caller
envelope == << call, call_pc, work_result, call_published, returned, invocations >>

\* the state of the sync actor, of the entity registry and of the cached
\* dataset model
extra == << sync_actor, registry, cached >>

vars == << dataset, observer, envelope, applied, worker, filesystem, extra >>

\* ---------------------------------------------------------------- helpers
Range(s) == { s[i] : i \in 1..Len(s) }

Msg(t, a, b) == [type |-> t, a |-> a, b |-> b]

\* what the handler that ran last returned
Outcome(t, r, list) == [type |-> t, result |-> r, snapshots |-> list]
NoOutcome == Outcome("none", "none", << >>)

NoRequest == [actor |-> 0, send_snapshot |-> None, parent_snapshot |-> None]

\* a variant of SortByDatetime that lists the newest entry first
RECURSIVE NewestFirst(_)
NewestFirst(S) ==
    IF S = {} THEN << >>
    ELSE LET m == CHOOSE x \in S : \A y \in S : x.datetime >= y.datetime
         IN  << m >> \o NewestFirst(S \ {m})

\* BtrfsDataset::snapshots: the entries of the container directory sorted
\* by datetime
RECURSIVE SortByDatetime(_)
SortByDatetime(S) ==
    IF S = {} THEN << >>
    ELSE LET m == CHOOSE x \in S : \A y \in S : x.datetime <= y.datetime
         IN  << m >> \o SortByDatetime(S \ {m})

\* Iterator::find over the snapshot list: the first snapshot with the uuid
FindSnapshot(list, uuid) ==
    IF \E i \in 1..Len(list) : list[i].uuid = uuid
    THEN Some(list[CHOOSE i \in 1..Len(list) :
                     /\ list[i].uuid = uuid
                     /\ \A j \in 1..(i - 1) : list[j].uuid # uuid])
    ELSE None

\* Option<&ScheduleModel>::map_or(Ok(None), |s| s.try_into().map(Some))
ConvertSchedule(opt) ==
    IF opt = None THEN [ok |-> TRUE, value |-> None]
    ELSE IF opt[1].period = 0 THEN [ok |-> FALSE, value |-> None]
    ELSE [ok |-> TRUE, value |-> opt]

Occurrences(schedule) ==
    { t \in 0..FarFuture : t % schedule.period = 0 /\ t <= schedule.last }

\* a variant of schedule_next_delay that takes the last occurrence
schedule_next_delay_latest(after, schedule) ==
    LET later == { t \in Occurrences(schedule) : t > after }
    IN  IF later = {} THEN None
        ELSE Some((CHOOSE t \in later : \A u \in later : t >= u) - after)

\* a variant of schedule_next_delay that takes an occurrence at `after` itself
schedule_next_delay_inclusive(after, schedule) ==
    LET later == { t \in Occurrences(schedule) : t >= after }
    IN  IF later = {} THEN None
        ELSE Some((CHOOSE t \in later : \A u \in later : t <= u) - after)

\* schedule_next_delay: the delay to the first occurrence after `after`
schedule_next_delay(after, schedule) ==
    LET later == { t \in Occurrences(schedule) : t > after }
    IN  IF later = {} THEN None
        ELSE Some((CHOOSE t \in later : \A u \in later : t <= u) - after)

\* ------------------------------------------------------- retention engine
\* the snapshots of `list` inside slot k of a bucket of width interval,
\* counted back from `at`
InSlot(list, at, interval, k) ==
    { i \in 1..Len(list) :
        /\ list[i].datetime > at - (k + 1) * interval
        /\ list[i].datetime <= at - k * interval }

\* the newest snapshot of a non-empty set of positions of a sorted list
Newest(I) == CHOOSE i \in I : \A j \in I : j <= i

\* the positions one bucket retains: the newest of each of its slots
BucketKeeps(list, at, bucket) ==
    { Newest(InSlot(list, at, bucket[1], k)) :
        k \in { k \in 0..(bucket[2] - 1) : InSlot(list, at, bucket[1], k) # {} } }

\* the positions the rule retains, before holds are taken into account
RuleKeeps(list, at, rule) ==
    UNION { BucketKeeps(list, at, rule.buckets[b]) : b \in 1..Len(rule.buckets) }
    \cup { i \in 1..Len(list) : i > Len(list) - rule.newest }

\* the retention engine: positions to keep and to delete; a held snapshot is
\* kept regardless of its bucket assignment
EvaluateRetention(list, holds, rule, at) ==
    LET held == { i \in 1..Len(list) : list[i].uuid \in holds }
        keep == RuleKeeps(list, at, rule) \cup held
    IN  [keep |-> keep, delete |-> (1..Len(list)) \ keep]

\* ------------------------------------------------------------------- Init
\* no worker runs
NoWorker ==
    [pc |-> "none", entities |-> [pools |-> << >>, syncs |-> << >>],
     log |-> << >>, ran |-> {}, rounds |-> 0, result |-> "none",
     ready |-> {}, round |-> {}, failed |-> 0]

\* a filesystem without subvolumes, where no subvolume was received yet
NoFilesystem == [subvolumes |-> << >>, created |-> 0, nextUuid |-> 1]

\* no sync actor runs
NoSync == [state |-> "none"]

\* no entity registry is loaded
NoRegistry == [pools |-> << >>, given |-> << >>, returned |-> "none"]

\* no cached dataset model is in use
NoCached == [disk |-> << >>, cache |-> << >>, returned |-> << >>]

\* none of the three is in use
NoExtra == sync_actor = NoSync /\ registry = NoRegistry /\ cached = NoCached

\* no function has been applied
NotApplied == [fn |-> "none", args |-> << >>, result |-> << >>]

\* no observer is constructed
NoObserver ==
    /\ router = << >>
    /\ emitter = [url |-> ""]
    /\ heartbeat_config = None
    /\ observer_status = "none"
    /\ observer_mailbox = << >>
    /\ observer_clock = 0
    /\ interval_due = None
    /\ pings = << >>
    /\ heartbeat_pings = << >>
    /\ emitted = << >>

\* no envelope has been invoked
NoEnvelope ==
    /\ call = None
    /\ call_pc = 0
    /\ work_result = None
    /\ call_published = << >>
    /\ returned = None
    /\ invocations = 0

Init ==
    /\ model \in DatasetModels
    /\ now = StartTime
    /\ status = "new"
    /\ terminal = "none"
    /\ \E D \in InitialDisks :
          /\ snapshots = SortByDatetime(D)
          /\ disk = { v.uuid : v \in D }
    /\ snapshot_schedule = None
    /\ prune_schedule = None
    /\ active_sends_holds = << >>
    /\ mailbox = << >>
    /\ timers = << >>
    /\ pc = "idle"
    /\ cur = NoRequest
    /\ children = [a \in ActorIds |-> "unborn"]
    /\ active_actors = {}
    /\ ready = << >>
    /\ published = << >>
    /\ nextUuid = FirstNewUuid
    /\ last = NoOutcome
    /\ NoObserver
    /\ NoEnvelope
    /\ applied = NotApplied /\ worker = NoWorker /\ filesystem = NoFilesystem /\ NoExtra

\* ------------------------------------------------------------ scheduling
\* schedule_next_message: panics without a schedule; sends the message
\* later when the schedule has a next occurrence
schedule_next_message(schedule, message, at) ==
    IF schedule = None THEN [panic |-> TRUE, sent |-> << >>]
    ELSE LET delay == schedule_next_delay(at, schedule[1])
         IN  IF delay = None THEN [panic |-> FALSE, sent |-> << >>]
             ELSE [panic |-> FALSE,
                   sent |-> << [msg |-> message, due |-> at + delay[1]] >>]

\* a variant of schedule_next_snapshot that sends the message twice
schedule_next_snapshot_twice(schedule, at) ==
    LET n == schedule_next_message(schedule, "Snapshot", at)
    IN  [panic |-> n.panic, sent |-> n.sent \o n.sent]

\* DatasetActor::schedule_next_snapshot
schedule_next_snapshot(schedule, at) == schedule_next_message(schedule, "Snapshot", at)

\* a variant of schedule_next_prune that sends the message at once when
\* there is no schedule
schedule_next_prune_unscheduled(schedule, at) ==
    IF schedule = None THEN [panic |-> FALSE, sent |-> << [msg |-> "Prune", due |-> at] >>]
    ELSE schedule_next_message(schedule, "Prune", at)

\* DatasetActor::schedule_next_prune
schedule_next_prune(schedule, at) == schedule_next_message(schedule, "Prune", at)

\* a variant of StartSnapshotting that also takes a snapshot tick at once
StartSnapshottingAtOnce(m, at) ==
    LET conv == ConvertSchedule(m.snapshot_schedule)
    IN  [outcome |-> "ok", schedule |-> conv.value,
         sent |-> << [msg |-> "Snapshot", due |-> at] >>
                  \o schedule_next_snapshot(conv.value, at).sent]

\* ------------------------------------------------------- DatasetActor::started
\* the snapshot half of started
StartSnapshotting(m, at) ==
    IF ~m.snapshotting
    THEN [outcome |-> "ok", schedule |-> None, sent |-> << >>]
    ELSE LET conv == ConvertSchedule(m.snapshot_schedule)
         IN  IF ~conv.ok
             THEN [outcome |-> "err", schedule |-> None, sent |-> << >>]
             ELSE LET n == schedule_next_snapshot(conv.value, at)
                  IN  [outcome |-> IF n.panic THEN "panic" ELSE "ok",
                       schedule |-> conv.value, sent |-> n.sent]

\* a variant of StartPruning that starts without pruning when the evaluation
\* schedule cannot be converted
StartPruningLenient(m, at) ==
    [outcome |-> "ok", schedule |-> None, sent |-> << >>]

\* the prune half of started
StartPruning(m, at) ==
    IF ~m.pruning
    THEN [outcome |-> "ok", schedule |-> None, sent |-> << >>]
    ELSE LET evaluation == IF m.snapshot_retention = None THEN None
                           ELSE Some(m.snapshot_retention[1].evaluation_schedule)
             conv == ConvertSchedule(evaluation)
         IN  IF ~conv.ok
             THEN [outcome |-> "err", schedule |-> None, sent |-> << >>]
             ELSE LET n == schedule_next_prune(conv.value, at)
                  IN  [outcome |-> IF n.panic THEN "panic" ELSE "ok",
                       schedule |-> conv.value, sent |-> n.sent]

Started ==
    /\ status = "new"
    /\ LET s == StartSnapshotting(model, now)
           p == IF s.outcome = "ok" THEN StartPruning(model, now)
                ELSE [outcome |-> s.outcome, schedule |-> None, sent |-> << >>]
       IN  /\ snapshot_schedule' = s.schedule
           /\ prune_schedule' = p.schedule
           /\ timers' = timers \o s.sent \o p.sent
           /\ status' = CASE p.outcome = "ok" -> "running"
                          [] p.outcome = "err" -> "stopped"
                          [] OTHER -> "panicked"
           /\ terminal' = IF p.outcome = "err" THEN "Failed" ELSE terminal
    /\ UNCHANGED << extra, filesystem, worker, applied, observer, envelope, model, now, snapshots, active_sends_holds, mailbox, pc, cur,
                    children, active_actors, ready, published, disk, nextUuid, last >>

\* ------------------------------------------------------ clock and timers
\* time passes while the actor runs or one of its timers is pending; a timer
\* posts its message at the instant it is due
Tick(limit) ==
    /\ now < limit
    /\ status = "running" \/ timers # << >>
    /\ \A i \in 1..Len(timers) : timers[i].due > now
    /\ now' = now + 1
    /\ UNCHANGED << extra, filesystem, worker, applied, observer, envelope, model, status, terminal, snapshots, snapshot_schedule,
                    prune_schedule, active_sends_holds, mailbox, timers, pc, cur,
                    children, active_actors, ready, published, disk, nextUuid, last >>

AdvanceTime == Tick(MaxTime)

\* the mailbox after a message is sent to the actor: a message sent to an
\* actor that is not running, or behind a Stop event, is never taken
Stopping == \E i \in 1..Len(mailbox) : mailbox[i].type = "Stop"
Post(m) == IF status = "running" /\ ~Stopping THEN Append(mailbox, m) ELSE mailbox

\* a message is sent when the mailbox has room for it, or is to be dropped
CanPost == Len(mailbox) < MaxMailbox \/ status # "running" \/ Stopping

RemoveAt(seq, i) == SubSeq(seq, 1, i - 1) \o SubSeq(seq, i + 1, Len(seq))

\* a send_later timer expires: the message reaches the mailbox of a running
\* actor and is dropped otherwise
TimerFire ==
    \E i \in 1..Len(timers) :
        /\ timers[i].due <= now
        /\ CanPost
        /\ timers' = RemoveAt(timers, i)
        /\ mailbox' = Post(Msg(timers[i].msg, 0, None))
        /\ UNCHANGED << extra, filesystem, worker, applied, observer, envelope, model, now, status, terminal, snapshots, snapshot_schedule,
                        prune_schedule, active_sends_holds, pc, cur, children,
                        active_actors, ready, published, disk, nextUuid, last >>

\* --------------------------------------------------------------- handlers
\* a variant of CanHandle that takes a message while a handler awaits
CanHandleDuringAwait == status = "running" /\ mailbox # << >>

\* the actor takes the next message only when no handler is in progress:
\* a handler borrows the actor mutably until it returns
CanHandle == status = "running" /\ pc = "idle" /\ mailbox # << >>

Takes(kind) == CanHandle /\ Head(mailbox).type = kind

\* observable_func: Starting before the work, Succeeded or Failed after it
observable_func(event, ok) ==
    << [source |-> "dataset", event |-> event, stage |-> "Starting"],
       [source |-> "dataset", event |-> event,
        stage |-> IF ok THEN "Succeeded" ELSE "Failed"] >>

\* BtrfsDataset::create_local_snapshot at instant `at`
NewSnapshot(uuid, at) ==
    [uuid |-> uuid, datetime |-> at, path |-> <<"snapshots", at>>]

\* a variant of PushSnapshot that pushes a snapshot whatever was returned
PushSnapshotAlways(list, ok) == Append(list, NewSnapshot(nextUuid, now))

\* a variant of PushSnapshot that puts the new snapshot first
PushSnapshotFront(list, ok) ==
    IF ok THEN << NewSnapshot(nextUuid, now) >> \o list ELSE list

\* the snapshot list after create_local_snapshot returned: the new snapshot
\* is pushed when it returned Ok
PushSnapshot(list, ok) ==
    IF ok THEN Append(list, NewSnapshot(nextUuid, now)) ELSE list

\* BcHandler<SnapshotMessage>
HandleSnapshot ==
    /\ Takes("Snapshot")
    /\ \E ok \in BOOLEAN :
          /\ snapshots' = PushSnapshot(snapshots, ok)
          /\ disk' = IF ok THEN disk \cup {nextUuid} ELSE disk
          /\ nextUuid' = IF ok THEN nextUuid + 1 ELSE nextUuid
          /\ published' = observable_func("DatasetSnapshot", ok)
    /\ LET n == schedule_next_snapshot(snapshot_schedule, now)
       IN  /\ timers' = timers \o n.sent
           /\ status' = IF n.panic THEN "panicked" ELSE status
    /\ mailbox' = Tail(mailbox)
    /\ last' = NoOutcome
    /\ ready' = << >>
    /\ UNCHANGED << extra, filesystem, worker, applied, observer, envelope, model, now, terminal, snapshot_schedule, prune_schedule,
                    active_sends_holds, pc, cur, children, active_actors >>

\* a variant of Holds that forgets the parent uuids
HoldsSendOnly(records) == { records[i].send : i \in 1..Len(records) }

\* the uuids handed to the retention engine: the send uuid of every hold
\* record and its parent uuid when it has one
Holds(records) ==
    UNION { {records[i].send} \cup Range(records[i].parent) :
              i \in 1..Len(records) }

\* prune_btrfs_snapshots: what is left of the list, and the uuids whose
\* deletion was requested
prune_btrfs_snapshots(list, holds, rule, at) ==
    LET eval == EvaluateRetention(list, holds, rule, at)
        Kept(s) == \E i \in eval.keep : list[i] = s
    IN  [snapshots |-> SelectSeq(list, Kept),
         deleted |-> { list[i].uuid : i \in eval.delete }]

\* BcHandler<PruneMessage>
HandlePrune ==
    /\ Takes("Prune")
    /\ mailbox' = Tail(mailbox)
    /\ IF model.snapshot_retention = None
       THEN /\ status' = "panicked"
            /\ published' = << observable_func("DatasetPrune", FALSE)[1] >>
            /\ UNCHANGED << snapshots, disk >>
       ELSE LET pruned == prune_btrfs_snapshots(snapshots,
                              Holds(active_sends_holds),
                              model.snapshot_retention[1].rule, now)
            IN  \E failed \in {{}} \cup { {u} : u \in pruned.deleted } :
                   /\ snapshots' = pruned.snapshots
                   /\ disk' = disk \ (pruned.deleted \ failed)
                   /\ published' = observable_func("DatasetPrune", failed = {})
                   /\ status' = status
    /\ last' = NoOutcome
    /\ ready' = << >>
    /\ UNCHANGED << extra, filesystem, worker, applied, observer, envelope, model, now, terminal, snapshot_schedule, prune_schedule,
                    active_sends_holds, timers, pc, cur, children, active_actors,
                    nextUuid >>

\* From<&BtrfsDatasetSnapshot> for SnapshotHandle
SnapshotHandle(s) == [datetime |-> s.datetime, uuid |-> s.uuid]

\* BcHandler<GetDatasetSnapshotsMessage>
HandleGetSnapshots ==
    /\ Takes("GetSnapshots")
    /\ mailbox' = Tail(mailbox)
    /\ last' = Outcome("GetSnapshots", "ok",
                       [i \in 1..Len(snapshots) |-> SnapshotHandle(snapshots[i])])
    /\ published' = << >>
    /\ ready' = << >>
    /\ UNCHANGED << extra, filesystem, worker, applied, observer, envelope, model, now, status, terminal, snapshots, snapshot_schedule,
                    prune_schedule, active_sends_holds, timers, pc, cur, children,
                    active_actors, disk, nextUuid >>

\* the id of the next child actor
NewActorId ==
    CHOOSE a \in ActorIds :
        /\ children[a] = "unborn"
        /\ \A b \in ActorIds : children[b] = "unborn" => a <= b

\* a variant of Resolve that does not look the parent uuid up
ResolveSendOnly(list, msg) ==
    LET send == FindSnapshot(list, msg.a)
    IN  IF send = None THEN [error |-> "Snapshot not found.",
                             send_snapshot |-> None, parent_snapshot |-> None]
        ELSE [error |-> "", send_snapshot |-> send, parent_snapshot |-> None]

\* the first half of the sender and holder handlers: both uuids are
\* resolved against the snapshot list
Resolve(list, msg) ==
    LET send == FindSnapshot(list, msg.a)
        parent == IF msg.b = None THEN None ELSE FindSnapshot(list, msg.b[1])
    IN  IF send = None THEN [error |-> "Snapshot not found.",
                             send_snapshot |-> None, parent_snapshot |-> None]
        ELSE IF msg.b # None /\ parent = None
        THEN [error |-> "Parent not found",
              send_snapshot |-> None, parent_snapshot |-> None]
        ELSE [error |-> "", send_snapshot |-> send, parent_snapshot |-> parent]

\* a request resolves its uuids and creates its child actor, whose start
\* it then awaits, or fails
TakeRequest(kind, awaiting) ==
    /\ Takes(kind)
    /\ mailbox' = Tail(mailbox)
    /\ LET r == Resolve(snapshots, Head(mailbox))
       IN  IF r.error # ""
           THEN /\ last' = Outcome(kind, r.error, << >>)
                /\ UNCHANGED << pc, cur, children >>
           ELSE /\ pc' = awaiting
                /\ cur' = [actor |-> NewActorId,
                           send_snapshot |-> r.send_snapshot,
                           parent_snapshot |-> r.parent_snapshot]
                /\ children' = [children EXCEPT ![NewActorId] = "starting"]
                /\ last' = NoOutcome
    /\ published' = << >>
    /\ ready' = << >>
    /\ UNCHANGED << extra, filesystem, worker, applied, observer, envelope, model, now, status, terminal, snapshots, snapshot_schedule,
                    prune_schedule, active_sends_holds, timers, active_actors,
                    disk, nextUuid >>

\* BcHandler<GetSnapshotSenderMessage>, up to the await of the child's start
HandleGetSnapshotSender == TakeRequest("GetSnapshotSender", "startingSender")

\* BcHandler<GetSnapshotHolderMessage>, up to the await of the child's start
HandleGetSnapshotHolder == TakeRequest("GetSnapshotHolder", "startingHolder")

\* the hold record of a started child
HoldRecord(actor, send_snapshot, parent_snapshot) ==
    [actor |-> actor, send |-> send_snapshot.uuid,
     parent |-> IF parent_snapshot = None THEN None
                ELSE Some(parent_snapshot[1].uuid)]

\* a variant of PushHold that records the hold whether the child started or not
PushHoldUnstarted(records, started) ==
    Append(records, HoldRecord(cur.actor, cur.send_snapshot[1], cur.parent_snapshot))

\* a variant of PushHold that records no hold
PushHoldSkipped(records, started) == records

\* the hold set after the child's start: a record is pushed when it started
PushHold(records, started) ==
    IF started
    THEN Append(records, HoldRecord(cur.actor, cur.send_snapshot[1], cur.parent_snapshot))
    ELSE records

\* SenderReadyMessage: the sender's address, or the error of its start
SenderReadyMessage(started) ==
    [kind |-> "SenderReady", addr |-> IF started THEN Some(cur.actor) ELSE None,
     snapshot_path |-> None, parent_snapshot_path |-> None]

\* a variant of HolderReadyMessage that gives the send snapshot's path twice
HolderReadyMessageOnePath(started) ==
    [kind |-> "HolderReady", addr |-> IF started THEN Some(cur.actor) ELSE None,
     snapshot_path |-> Some(cur.send_snapshot[1].path),
     parent_snapshot_path |-> IF cur.parent_snapshot = None THEN None
                              ELSE Some(cur.send_snapshot[1].path)]

\* HolderReadyMessage: the holder's address, or the error of its start, and
\* the paths of the resolved snapshots
HolderReadyMessage(started) ==
    [kind |-> "HolderReady", addr |-> IF started THEN Some(cur.actor) ELSE None,
     snapshot_path |-> Some(cur.send_snapshot[1].path),
     parent_snapshot_path |-> IF cur.parent_snapshot = None THEN None
                              ELSE Some(cur.parent_snapshot[1].path)]

\* the replies the sender handler posts to target_ready
SenderReplies(started) == << SenderReadyMessage(started) >>

\* the replies the holder handler posts to target_ready
HolderReplies(started) == << HolderReadyMessage(started) >>

\* the second half of the sender and holder handlers: the child's start
\* completes, its hold is recorded, the reply is sent to target_ready and
\* the handler returns Ok, or the error of a send that target_ready refused
FinishRequest(kind, awaiting, started, replies) ==
    /\ status = "running"
    /\ pc = awaiting
    /\ children' = [children EXCEPT ![cur.actor] =
                       IF started THEN "live" ELSE "failed"]
    /\ active_sends_holds' = PushHold(active_sends_holds, started)
    /\ ready' = replies
    /\ pc' = "idle"
    /\ cur' = NoRequest
    /\ \E accepted \in BOOLEAN :
          last' = Outcome(kind, IF accepted THEN "ok" ELSE "send failed", << >>)
    /\ UNCHANGED << extra, filesystem, worker, applied, observer, envelope, model, now, status, terminal, snapshots, snapshot_schedule,
                    prune_schedule, mailbox, timers, active_actors, published,
                    disk, nextUuid >>

SenderStarted ==
    \E started \in BOOLEAN :
        FinishRequest("GetSnapshotSender", "startingSender", started,
                      SenderReplies(started))

HolderStarted ==
    \E started \in BOOLEAN :
        FinishRequest("GetSnapshotHolder", "startingHolder", started,
                      HolderReplies(started))

\* a variant of RetainOthers that also releases the records of other actors
\* on the send snapshot of the finished actor
RetainOtherSnapshots(records, actor_id) ==
    LET finished == { records[i].send : i \in { j \in 1..Len(records) :
                                                   records[j].actor = actor_id } }
        Other(r) == r.actor # actor_id /\ r.send \notin finished
    IN  SelectSeq(records, Other)

\* a variant of RetainOthers that clears the hold set
RetainNone(records, actor_id) == << >>

\* BcHandler<LocalSenderFinishedMessage>: the records of other actors stay
RetainOthers(records, actor_id) ==
    LET Other(r) == r.actor # actor_id
    IN  SelectSeq(records, Other)

HandleFinished ==
    /\ Takes("Finished")
    /\ mailbox' = Tail(mailbox)
    /\ active_sends_holds' = RetainOthers(active_sends_holds, Head(mailbox).a)
    /\ last' = NoOutcome
    /\ published' = << >>
    /\ ready' = << >>
    /\ UNCHANGED << extra, filesystem, worker, applied, observer, envelope, model, now, status, terminal, snapshots, snapshot_schedule,
                    prune_schedule, timers, pc, cur, children, active_actors,
                    disk, nextUuid >>

\* BcHandler<GetActorStatusMessage>
HandleGetActorStatus ==
    /\ Takes("GetActorStatus")
    /\ mailbox' = Tail(mailbox)
    /\ last' = Outcome("GetActorStatus", "ok", << >>)
    /\ published' = << >>
    /\ ready' = << >>
    /\ UNCHANGED << extra, filesystem, worker, applied, observer, envelope, model, now, status, terminal, snapshots, snapshot_schedule,
                    prune_schedule, active_sends_holds, timers, pc, cur, children,
                    active_actors, disk, nextUuid >>

\* ------------------------------------------------------ DatasetActor::stopped
\* WeakAddr::upgrade succeeds for a child that is still alive
Upgrades(actor) == children[actor] = "live"

\* the children of the drained hold records that are still alive
ActiveActors(records) ==
    { records[i].actor : i \in { j \in 1..Len(records) : Upgrades(records[j].actor) } }

\* a variant of StoppedState that never reports Cancelled
StoppedStateSucceeded(actors) == "Succeeded"

\* the terminal state stopped reports
StoppedState(actors) == IF actors # {} THEN "Cancelled" ELSE "Succeeded"

\* the hold set after stopped has drained it
Drained(records) == << >>

\* the Stop event is taken from the mailbox: the hold set is drained and
\* the live children are told to stop
HandleStop ==
    /\ Takes("Stop")
    /\ mailbox' = << >>
    /\ active_sends_holds' = Drained(active_sends_holds)
    /\ active_actors' = ActiveActors(active_sends_holds)
    /\ children' = [a \in ActorIds |->
                      IF a \in ActiveActors(active_sends_holds)
                      THEN "stopping"
                      ELSE children[a]]
    /\ IF ActiveActors(active_sends_holds) # {}
       THEN /\ status' = "joining"
            /\ terminal' = terminal
       ELSE /\ status' = "stopped"
            /\ terminal' = StoppedState(ActiveActors(active_sends_holds))
    /\ last' = NoOutcome
    /\ published' = << >>
    /\ ready' = << >>
    /\ UNCHANGED << extra, filesystem, worker, applied, observer, envelope, model, now, snapshots, snapshot_schedule, prune_schedule,
                    timers, pc, cur, disk, nextUuid >>

\* join_all_actors returns once every stopped child has finished
JoinReturns(actors) == \A a \in actors : children[a] = "stopped"

JoinDone ==
    /\ status = "joining"
    /\ JoinReturns(active_actors)
    /\ status' = "stopped"
    /\ terminal' = StoppedState(active_actors)
    /\ UNCHANGED << extra, filesystem, worker, applied, observer, envelope, model, now, snapshots, snapshot_schedule, prune_schedule,
                    active_sends_holds, mailbox, timers, pc, cur, children,
                    active_actors, ready, published, disk, nextUuid, last >>

\* ------------------------------------------------------------ child actors
\* a variant of ChildStops in which the stopped hook posts nothing
ChildStopsSilently ==
    \E a \in ActorIds :
        /\ children[a] \in {"live", "stopping"}
        /\ children' = [children EXCEPT ![a] = "stopped"]
        /\ UNCHANGED << extra, filesystem, worker, applied, observer, envelope, model, now, status, terminal, snapshots, snapshot_schedule,
                        prune_schedule, active_sends_holds, mailbox, timers, pc, cur,
                        active_actors, ready, published, disk, nextUuid, last >>

\* a child stops (its transfer ended, or it was told to stop): its stopped
\* hook posts Finished with its own actor id to the owning DatasetActor,
\* which takes no message once it has begun to stop
ChildStops ==
    \E a \in ActorIds :
        /\ children[a] \in {"live", "stopping"}
        /\ CanPost
        /\ children' = [children EXCEPT ![a] = "stopped"]
        /\ mailbox' = Post(Msg("Finished", a, None))
        /\ UNCHANGED << extra, filesystem, worker, applied, observer, envelope, model, now, status, terminal, snapshots, snapshot_schedule,
                        prune_schedule, active_sends_holds, timers, pc, cur,
                        active_actors, ready, published, disk, nextUuid, last >>

\* ------------------------------------------------------------ environment
ChildRequests == {"GetSnapshotSender", "GetSnapshotHolder"}

\* the child actors not yet created, and the requests waiting for one
Unborn == Cardinality({ a \in ActorIds : children[a] = "unborn" })
Pending == Cardinality({ i \in 1..Len(mailbox) : mailbox[i].type \in ChildRequests })

\* the uuids other actors ask for: the younger subvolume as the snapshot to
\* send, and no parent or the older subvolume as its parent
RequestSends == { v.uuid : v \in { w \in DiskSubvolumes : w.datetime = StartTime } }
RequestParents ==
    {None} \cup { Some(v.uuid) : v \in { w \in DiskSubvolumes : w.datetime < StartTime } }
Requests ==
    { Msg(k, u, p) : k \in ChildRequests,
                     u \in RequestSends, p \in RequestParents }
    \cup { Msg("GetSnapshots", 0, None), Msg("GetActorStatus", 0, None) }

\* another actor posts a request
PostRequest ==
    /\ status = "running" /\ ~Stopping
    /\ Len(mailbox) < MaxMailbox
    /\ \E m \in Requests :
          /\ m.type \in ChildRequests => Unborn > Pending
          /\ mailbox' = Post(m)
    /\ UNCHANGED << extra, filesystem, worker, applied, observer, envelope, model, now, status, terminal, snapshots, snapshot_schedule,
                    prune_schedule, active_sends_holds, timers, pc, cur, children,
                    active_actors, ready, published, disk, nextUuid, last >>

\* a Finished message arrives again for a child that has already stopped,
\* or for one that never started
PostStrayFinished ==
    /\ status = "running" /\ ~Stopping
    /\ Len(mailbox) < MaxMailbox
    /\ \E a \in ActorIds :
          /\ children[a] \in {"stopped", "failed"}
          /\ mailbox' = Post(Msg("Finished", a, None))
    /\ UNCHANGED << extra, filesystem, worker, applied, observer, envelope, model, now, status, terminal, snapshots, snapshot_schedule,
                    prune_schedule, active_sends_holds, timers, pc, cur, children,
                    active_actors, ready, published, disk, nextUuid, last >>

\* the supervisor stops the actor
PostStop ==
    /\ status = "running" /\ ~Stopping
    /\ Len(mailbox) < MaxMailbox
    /\ mailbox' = Post(Msg("Stop", 0, None))
    /\ UNCHANGED << extra, filesystem, worker, applied, observer, envelope, model, now, status, terminal, snapshots, snapshot_schedule,
                    prune_schedule, active_sends_holds, timers, pc, cur, children,
                    active_actors, ready, published, disk, nextUuid, last >>

\* ---------------------------------------------------------- specification
Next ==
    \/ Started
    \/ AdvanceTime
    \/ TimerFire
    \/ HandleSnapshot
    \/ HandlePrune
    \/ HandleGetSnapshots
    \/ HandleGetSnapshotSender
    \/ SenderStarted
    \/ HandleGetSnapshotHolder
    \/ HolderStarted
    \/ HandleFinished
    \/ HandleGetActorStatus
    \/ HandleStop
    \/ JoinDone
    \/ ChildStops
    \/ PostRequest
    \/ PostStrayFinished
    \/ PostStop

Spec == Init /\ [][Next]_vars

\* the actor's event loop takes the next message whenever one waits, and a
\* child's start that a handler awaits completes
Deliver ==
    \/ HandleSnapshot
    \/ HandlePrune
    \/ HandleGetSnapshots
    \/ HandleGetSnapshotSender
    \/ SenderStarted
    \/ HandleGetSnapshotHolder
    \/ HolderStarted
    \/ HandleFinished
    \/ HandleGetActorStatus
    \/ HandleStop

\* the specification of an actor that keeps processing its mailbox
FairSpec == Spec /\ WF_vars(Deliver)

\* ------------------------------------------------ observation envelope
\* ObservableEventStage::Starting and ::Succeeded carry nothing
Stage(kind) == [kind |-> kind, error |-> << >>]

\* format!("{:?}", e): the Debug rendering of an error
DebugFormat(e) == << "Debug", e >>

\* a variant of final_stage that reports every result as a success
final_stage_succeeded(result) == Stage("Succeeded")

\* final_stage: Succeeded for Ok, Failed with the rendered error for Err
final_stage(result) ==
    IF result.ok THEN Stage("Succeeded")
    ELSE [kind |-> "Failed", error |-> DebugFormat(result.value)]

\* ObservableEventMessage; inv numbers the invocation that published it
ObservableEventMessage(source, event, stage, inv) ==
    [type |-> "Event", source |-> source, event |-> event, stage |-> stage,
     inv |-> inv]

HeartbeatMessage ==
    [type |-> "Heartbeat", source |-> "", event |-> "", stage |-> Stage(""),
     inv |-> 0]

\* a variant of observable_func_body that runs the work before it publishes
observable_func_work_first == << "work", "publish starting", "publish final" >>

\* the body of observable_func in program order
observable_func_body == << "publish starting", "work", "publish final" >>

\* the observer's mailbox has room for one message more than the dataset
\* actor's, or the observer does not take messages
ObserverCanPost ==
    Len(observer_mailbox) <= MaxMailbox \/ observer_status # "running"

\* Broker::publish: the broker hands the event to the subscribed observer, and
\* to nobody when no observer is subscribed
Publish(message) ==
    /\ call_published' = Append(call_published, message)
    /\ observer_mailbox' =
          IF observer_status = "running"
          THEN Append(observer_mailbox, message)
          ELSE observer_mailbox

\* an actor calls observable_func for an operation on one of its entities
Invoke ==
    /\ observer_status # "none"
    /\ call = None \/ returned # None
    /\ invocations < MaxInvocations
    /\ \E op \in Operations :
          call' = Some([source |-> op[1], event |-> op[2],
                        inv |-> invocations + 1])
    /\ invocations' = invocations + 1
    /\ call_pc' = 0
    /\ work_result' = None
    /\ call_published' = << >>
    /\ returned' = None
    /\ UNCHANGED << extra, filesystem, worker, applied, dataset, observer >>

\* the invocation publishes Starting
PublishStarting ==
    /\ call # None /\ returned = None
    /\ call_pc < Len(observable_func_body)
    /\ observable_func_body[call_pc + 1] = "publish starting"
    /\ ObserverCanPost
    /\ Publish(ObservableEventMessage(call[1].source, call[1].event,
                                      Stage("Starting"), call[1].inv))
    /\ call_pc' = call_pc + 1
    /\ UNCHANGED << extra, filesystem, worker, applied, dataset, router, emitter, heartbeat_config, observer_status,
                    observer_clock, interval_due, pings, heartbeat_pings,
                    emitted,
                    call, work_result, returned, invocations >>

\* the invocation awaits func(), which returns Ok or Err
Work ==
    /\ call # None /\ returned = None
    /\ call_pc < Len(observable_func_body)
    /\ observable_func_body[call_pc + 1] = "work"
    /\ \E result \in WorkResults : work_result' = Some(result)
    /\ call_pc' = call_pc + 1
    /\ UNCHANGED << extra, filesystem, worker, applied, dataset, observer, call, call_published, returned,
                    invocations >>

\* the invocation publishes the final stage and returns the result of the
\* work; a final stage computed before the work ran has no result to carry
PublishFinal ==
    /\ call # None /\ returned = None
    /\ call_pc < Len(observable_func_body)
    /\ observable_func_body[call_pc + 1] = "publish final"
    /\ ObserverCanPost
    /\ Publish(ObservableEventMessage(
                  call[1].source, call[1].event,
                  IF work_result = None THEN Stage("") ELSE final_stage(work_result[1]),
                  call[1].inv))
    /\ call_pc' = call_pc + 1
    /\ returned' = IF call_pc + 1 = Len(observable_func_body)
                   THEN work_result ELSE returned
    /\ UNCHANGED << extra, filesystem, worker, applied, dataset, router, emitter, heartbeat_config, observer_status,
                    observer_clock, interval_due, pings, heartbeat_pings,
                    emitted,
                    call, work_result, invocations >>

\* ------------------------------------------------- health-check observer
\* ObservationEmitter::default
DefaultUrl == "https://hc-ping.com/"

\* ObservationEmitter::new for a custom url, the default emitter without one
NewEmitter(custom_url) ==
    [url |-> IF custom_url = None THEN DefaultUrl ELSE custom_url[1]]

\* Uri::from_str(..).unwrap() succeeds on text that is a url
ValidUri(url) == url # "hc local/"

\* Uuid::to_hyphenated
Hyphenated(id) == << "hyphenated", id >>

\* a variant of Suffix that reports a failure with the success url
SuffixWithoutFail(stage) ==
    IF stage.kind = "Starting" THEN "/start" ELSE ""

\* the url suffix of a stage
Suffix(stage) ==
    CASE stage.kind = "Starting" -> "/start"
      [] stage.kind = "Succeeded" -> ""
      [] stage.kind = "Failed" -> "/fail"

\* the url ObservationEmitter::emit requests
EmitUrl(url, healthcheck_id, stage) ==
    << url, Hyphenated(healthcheck_id), Suffix(stage) >>

\* what a request can come to: a response status or a transport error
Responses == {"200", "500", "transport error"}

\* the result of ObservationEmitter::emit
EmitResult(response) == IF response = "200" THEN "ok" ELSE "error"

\* a variant of route that matches on the source alone
route_by_source(observations, source, event) ==
    SelectSeq(observations, LAMBDA obs : obs.entity_id = source)

\* ObservationRouter::route
route(observations, source, event) ==
    SelectSeq(observations,
              LAMBDA obs : obs.entity_id = source /\ obs.event = event)

\* HealthchecksActor::new
ObserverInit ==
    /\ router \in ObservationLists
    /\ \E custom_url \in CustomUrls : emitter = NewEmitter(custom_url)
    /\ heartbeat_config \in HeartbeatModels
    /\ observer_status = "new"
    /\ observer_mailbox = << >>
    /\ observer_clock = 0
    /\ interval_due = None
    /\ pings = << >>
    /\ heartbeat_pings = << >>
    /\ emitted = << >>

\* a variant of StartHeartbeat that only arms the interval
StartHeartbeatLater(config) ==
    IF config = None THEN [sent |-> << >>, due |-> None]
    ELSE [sent |-> << >>,
          due |-> Some(observer_clock + config[1].frequency)]

\* started, after the subscription: with a heartbeat configured one
\* HeartbeatMessage is sent at once and send_interval is armed
StartHeartbeat(config) ==
    IF config = None THEN [sent |-> << >>, due |-> None]
    ELSE [sent |-> << HeartbeatMessage >>,
          due |-> Some(observer_clock + config[1].frequency)]

\* HealthchecksActor::started
ObserverStarted ==
    /\ observer_status = "new"
    /\ \E subscribed \in BOOLEAN :
          IF subscribed
          THEN /\ observer_status' = "running"
               /\ observer_mailbox' = StartHeartbeat(heartbeat_config).sent
               /\ interval_due' = StartHeartbeat(heartbeat_config).due
          ELSE /\ observer_status' = "failed"
               /\ UNCHANGED << observer_mailbox, interval_due >>
    /\ UNCHANGED << extra, filesystem, worker, applied, dataset, envelope, router, emitter, heartbeat_config,
                    observer_clock, pings, heartbeat_pings, emitted >>

\* the interval timer is due
IntervalDue == interval_due # None /\ interval_due[1] <= observer_clock

\* time passes while the observer runs and no timer is due
ObserverAdvanceTime ==
    /\ observer_status = "running"
    /\ observer_clock < MaxTime
    /\ ~IntervalDue
    /\ observer_clock' = observer_clock + 1
    /\ UNCHANGED << extra, filesystem, worker, applied, dataset, envelope, router, emitter, heartbeat_config,
                    observer_status, observer_mailbox, interval_due, pings,
                    heartbeat_pings, emitted >>

\* send_interval: after each period the message is sent again; the loop
\* ends when the actor is gone
IntervalFire ==
    /\ IntervalDue
    /\ ObserverCanPost
    /\ IF observer_status = "running"
       THEN /\ observer_mailbox' = Append(observer_mailbox, HeartbeatMessage)
            /\ interval_due' =
                  Some(interval_due[1] + heartbeat_config[1].frequency)
       ELSE /\ interval_due' = None
            /\ UNCHANGED observer_mailbox
    /\ UNCHANGED << extra, filesystem, worker, applied, dataset, envelope, router, emitter, heartbeat_config,
                    observer_status, observer_clock, pings, heartbeat_pings, emitted >>

ObserverTakes(type) ==
    /\ observer_status = "running"
    /\ observer_mailbox # << >>
    /\ Head(observer_mailbox).type = type

\* the ping of one emit
Ping(healthcheck_id, stage, inv) ==
    [url |-> EmitUrl(emitter.url, healthcheck_id, stage), inv |-> inv]

\* a variant of EmitAll that gives up at the first failed emit
EmitUntilFailure(observers, stage, inv, responses) ==
    LET failed == { i \in 1..Len(observers) : EmitResult(responses[i]) = "error" }
        n == IF failed = {} THEN Len(observers)
             ELSE CHOOSE i \in failed : \A j \in failed : i <= j
    IN  [ i \in 1..n |-> Ping(observers[i].healthcheck_id, stage, inv) ]

\* the loop of the event handler: one emit for each routed observation, in
\* order, whatever the emits before it came to
EmitAll(observers, stage, inv, responses) ==
    [ i \in 1..Len(observers) |-> Ping(observers[i].healthcheck_id, stage, inv) ]

\* Handler<ObservableEventMessage>
HandleEvent ==
    /\ ObserverTakes("Event")
    /\ LET msg == Head(observer_mailbox)
           observers == route(router, msg.source, msg.event)
       IN  IF observers # << >> /\ ~ValidUri(emitter.url)
           THEN /\ observer_status' = "panicked: uri"
                /\ observer_mailbox' = << >>
                /\ emitted' = << >>
                /\ UNCHANGED pings
           ELSE \E responses \in [1..Len(observers) -> Responses] :
                   /\ pings' = pings \o EmitAll(observers, msg.stage, msg.inv,
                                                responses)
                   /\ emitted' = [ i \in 1..Len(observers) |->
                                      EmitResult(responses[i]) ]
                   /\ observer_mailbox' = Tail(observer_mailbox)
                   /\ UNCHANGED observer_status
    /\ UNCHANGED << extra, filesystem, worker, applied, dataset, envelope, router, emitter, heartbeat_config,
                    observer_clock, interval_due, heartbeat_pings >>

\* Handler<HeartbeatMessage>
HandleHeartbeat ==
    /\ ObserverTakes("Heartbeat")
    /\ IF heartbeat_config = None
       THEN /\ observer_status' = "panicked: heartbeat"
            /\ observer_mailbox' = << >>
            /\ emitted' = << >>
            /\ UNCHANGED heartbeat_pings
       ELSE IF ~ValidUri(emitter.url)
       THEN /\ observer_status' = "panicked: uri"
            /\ observer_mailbox' = << >>
            /\ emitted' = << >>
            /\ UNCHANGED heartbeat_pings
       ELSE \E response \in Responses :
               /\ heartbeat_pings' =
                     Append(heartbeat_pings,
                            Ping(heartbeat_config[1].healthcheck_id,
                                 Stage("Succeeded"), 0))
               /\ emitted' = << EmitResult(response) >>
               /\ observer_mailbox' = Tail(observer_mailbox)
               /\ UNCHANGED observer_status
    /\ UNCHANGED << extra, filesystem, worker, applied, dataset, envelope, router, emitter, heartbeat_config,
                    observer_clock, interval_due, pings >>

\* the Stop event is taken; HealthchecksActor::stopped unsubscribes, and the
\* messages still waiting are never taken
ObserverStopped ==
    /\ observer_status = "running"
    /\ observer_status' = "stopped"
    /\ observer_mailbox' = << >>
    /\ emitted' = << >>
    /\ UNCHANGED << extra, filesystem, worker, applied, dataset, envelope, router, emitter, heartbeat_config,
                    observer_clock, interval_due, pings, heartbeat_pings >>

\* a dataset actor that is constructed with nothing enabled and no snapshot
DatasetIdle ==
    /\ model = [snapshotting |-> FALSE, snapshot_schedule |-> None,
                pruning |-> FALSE, snapshot_retention |-> None]
    /\ now = StartTime
    /\ status = "new"
    /\ terminal = "none"
    /\ snapshots = << >>
    /\ disk = {}
    /\ snapshot_schedule = None
    /\ prune_schedule = None
    /\ active_sends_holds = << >>
    /\ mailbox = << >>
    /\ timers = << >>
    /\ pc = "idle"
    /\ cur = NoRequest
    /\ children = [a \in ActorIds |-> "unborn"]
    /\ active_actors = {}
    /\ ready = << >>
    /\ published = << >>
    /\ nextUuid = FirstNewUuid
    /\ last = NoOutcome

ObsInit == DatasetIdle /\ ObserverInit /\ NoEnvelope /\ applied = NotApplied /\ worker = NoWorker /\ filesystem = NoFilesystem /\ NoExtra

ObsNext ==
    \/ Invoke
    \/ PublishStarting
    \/ Work
    \/ PublishFinal
    \/ ObserverStarted
    \/ ObserverAdvanceTime
    \/ IntervalFire
    \/ HandleEvent
    \/ HandleHeartbeat
    \/ ObserverStopped

\* the observer, the broker and the callers of the observation envelope
ObsSpec == ObsInit /\ [][ObsNext]_vars

\* ------------------------------------------------------- pure functions
\* cron schedules by period and last occurrence, and reference instants
CronModels == { [period |-> p, last |-> l] : p \in 1..FarFuture, l \in 0..FarFuture }
Instants == 0..FarFuture

\* strictly increasing sequences of two or three instants
IncreasingInstants ==
    { q \in [1..2 -> Instants] \cup [1..3 -> Instants] :
         \A i, j \in 1..Len(q) : i < j => q[i] < q[j] }

\* schedule_next_message is called at instant `at`
ApplyScheduleNextMessage ==
    /\ \E schedule \in {None} \cup { Some(c) : c \in CronModels }, at \in Instants :
          applied' = [fn |-> "schedule_next_message",
                      args |-> [schedule |-> schedule, at |-> at],
                      result |-> schedule_next_message(schedule, "Snapshot", at)]
    /\ UNCHANGED << dataset, observer, envelope, worker, filesystem, extra >>

\* schedule_next_delay is called with each of a sequence of instants
ApplyScheduleNextDelay ==
    /\ \E schedule \in CronModels, afters \in IncreasingInstants :
          applied' = [fn |-> "schedule_next_delay",
                      args |-> [schedule |-> schedule, afters |-> afters],
                      result |-> [ i \in 1..Len(afters) |->
                                     schedule_next_delay(afters[i], schedule) ]]
    /\ UNCHANGED << dataset, observer, envelope, worker, filesystem, extra >>

\* TerminalState::Succeeded, and TerminalState::Failed with its retry flag
Succeeded == [state |-> "Succeeded", retry |-> FALSE]
Failed(retry) == [state |-> "Failed", retry |-> retry]

\* TerminalState::dnr and TerminalState::retry
dnr == Failed(FALSE)
retry == Failed(TRUE)

\* the causes of a failed transfer: ephemeral ones and structural ones
EphemeralCauses == {"pipe broken", "command signalled"}
StructuralCauses == {"parent missing", "uuid mismatch"}

\* the results a transfer can come to
TransferResults ==
    { [ok |-> TRUE, value |-> "done"] }
    \cup { [ok |-> FALSE, value |-> c] : c \in EphemeralCauses \cup StructuralCauses }

\* impl From<Result<T, E>> for TerminalState
TerminalStateFrom(result) == IF result.ok THEN Succeeded ELSE dnr

\* a result is converted into a terminal state
ApplyTerminalStateFrom ==
    /\ \E result \in TransferResults :
          applied' = [fn |-> "TerminalState::from", args |-> result,
                      result |-> TerminalStateFrom(result)]
    /\ UNCHANGED << dataset, observer, envelope, worker, filesystem, extra >>

\* command line input is a sequence of its pieces: words and the
\* whitespace characters between them
Space == " "
Tab == "\t"
Whitespace == {Space, Tab}

\* the pieces of a list of words joined by a separator
RECURSIVE Joined(_, _)
Joined(words, separator) ==
    IF Len(words) <= 1 THEN words
    ELSE << Head(words), separator >> \o Joined(Tail(words), separator)

\* the words of an input: its pieces that are not whitespace
Words(s) == SelectSeq(s, LAMBDA piece : piece \notin Whitespace)

\* the minutes the units of a human duration stand for
DurationUnits ==
    [ w \in {"15m", "7m", "90m", "120m", "1h", "2h", "30m"} |->
        CASE w = "15m" -> 15 [] w = "7m" -> 7 [] w = "90m" -> 90
          [] w = "120m" -> 120 [] w = "1h" -> 60 [] w = "2h" -> 120
          [] w = "30m" -> 30 ]

\* the fields a cron expression is made of
CronFields == {"0", "*", "*/15"}

\* the inputs given as a schedule: cron expressions of six fields and of
\* two, durations of one unit and of two, and words that are neither, their
\* words put together with nothing, a space or a tab between them
ScheduleInputs ==
    { Joined(words, separator) :
        words \in { << "0", "*/15", "*", "*", "*", "*" >>,
                    << "0", "0", "*", "*", "*", "*" >>,
                    << "0", "*" >>,
                    << "15m" >>, << "7m" >>, << "90m" >>, << "120m" >>, << "2h" >>,
                    << "1h", "30m" >>, << "1h", "1h" >>,
                    << "often" >>, << >> },
        separator \in Whitespace }
    \cup { << "1h", "30m" >>, << "1h", "1h" >>, << "15m", Space >>, << "15m", Tab >> }

\* str::contains(' ')
contains(s, character) == \E i \in 1..Len(s) : s[i] = character

RECURSIVE SumOfUnits(_)
SumOfUnits(words) ==
    IF words = << >> THEN 0 ELSE DurationUnits[Head(words)] + SumOfUnits(Tail(words))

\* s.parse::<humantime::Duration>(): the minutes of the units of the input,
\* whatever whitespace is between them, or none when the input has no unit
\* or a word that is no unit
ParseDuration(s) ==
    IF Words(s) # << >> /\ \A i \in 1..Len(Words(s)) : Words(s)[i] \in DOMAIN DurationUnits
    THEN Some(SumOfUnits(Words(s)))
    ELSE None

\* ScheduleModel::from_str: the schedule of a cron expression of six fields
ParseCron(s) ==
    IF Len(Words(s)) = 6 /\ \A i \in 1..6 : Words(s)[i] \in CronFields
    THEN Some([cron |-> Words(s)])
    ELSE None

\* ScheduleModel::try_from(duration): the schedule with the duration as its
\* period, for a duration that divides the hour or is a number of hours
\* that divides the day
ScheduleOfDuration(minutes) ==
    IF \/ minutes < 60 /\ 60 % minutes = 0
       \/ minutes % 60 = 0 /\ 24 % (minutes \div 60) = 0
    THEN Some([every |-> minutes])
    ELSE None

\* what parsing a schedule made of its input
ScheduleResult(treated_as, schedule, error) ==
    [treated_as |-> treated_as, schedule |-> schedule, error |-> error]

\* impl FromStr for ScheduleArg
ScheduleArgFromStr(s) ==
    IF contains(s, Space)
    THEN ScheduleResult("cron", ParseCron(s),
                        IF ParseCron(s) = None THEN "cron error" ELSE "")
    ELSE IF ParseDuration(s) = None
         THEN ScheduleResult("duration", None, "humantime error")
         ELSE ScheduleResult("duration", ScheduleOfDuration(ParseDuration(s)[1]),
                             IF ScheduleOfDuration(ParseDuration(s)[1]) = None
                             THEN "use a cron expression" ELSE "")

\* an input is parsed as a schedule
ApplyScheduleArgFromStr ==
    /\ \E s \in ScheduleInputs :
          applied' = [fn |-> "ScheduleArg::from_str", args |-> s,
                      result |-> ScheduleArgFromStr(s)]
    /\ UNCHANGED << dataset, observer, envelope, worker, filesystem, extra >>

\* the snapshot lists of a dataset: snapshots of distinct instants, sorted
\* by datetime
RECURSIVE ListOf(_, _)
ListOf(instants, from) ==
    IF from > MaxTime THEN << >>
    ELSE IF from \in instants
         THEN << NewSnapshot(from + 1, from) >> \o ListOf(instants, from + 1)
         ELSE ListOf(instants, from + 1)
SnapshotLists == { ListOf(instants, 0) : instants \in SUBSET (0..MaxTime) }

\* the hold records of the actor: none, or those of one or two children
HoldRecordLists ==
    { << >> }
    \cup { << [actor |-> 1, send |-> u, parent |-> p] >> :
             u \in 1..(MaxTime + 1), p \in { None, Some(1) } }
    \cup { << [actor |-> 1, send |-> 2, parent |-> None],
              [actor |-> 2, send |-> u, parent |-> None] >> : u \in 1..(MaxTime + 1) }

\* the retention rules: some buckets and a minimum number of newest snapshots
RuleModels ==
    [ buckets : { << >>, << <<1, 1>> >>, << <<1, 2>> >>, << <<2, 1>> >>,
                  << <<1, 1>>, <<2, 2>> >> },
      newest : 0..2 ]

\* a prune that also gives up the oldest snapshot it would keep
PruneWithoutOldest(list, records, rule, at) ==
    LET pruned == prune_btrfs_snapshots(list, Holds(records), rule, at)
    IN  [pruned EXCEPT !.snapshots = IF @ = << >> THEN @ ELSE Tail(@)]

\* the prune of BcHandler<PruneMessage>: the holds of the hold records and
\* the rule go to prune_btrfs_snapshots, which leaves the kept snapshots
Prune(list, records, rule, at) ==
    prune_btrfs_snapshots(list, Holds(records), rule, at)

\* the inputs of a prune: a list, hold records, a rule and an instant no
\* snapshot of the list is later than
PruneInputs ==
    { in \in [list : SnapshotLists, records : HoldRecordLists,
              rule : RuleModels, at : 0..FarFuture] :
         \A i \in 1..Len(in.list) : in.list[i].datetime <= in.at }

\* the list is pruned
PruneOnce ==
    /\ applied.fn = "prune input"
    /\ applied' = [applied EXCEPT
                     !.fn = "prune",
                     !.result = << Prune(applied.args.list, applied.args.records,
                                         applied.args.rule, applied.args.at).snapshots >>]
    /\ UNCHANGED << dataset, observer, envelope, worker, filesystem, extra >>

\* what the prune kept is pruned again with the same holds, the same rule
\* and at the same instant
PruneAgain ==
    /\ applied.fn = "prune"
    /\ applied' = [applied EXCEPT
                     !.fn = "prune again",
                     !.result = Append(@, Prune(applied.result[1], applied.args.records,
                                                applied.args.rule, applied.args.at).snapshots)]
    /\ UNCHANGED << dataset, observer, envelope, worker, filesystem, extra >>

PruneInit ==
    /\ DatasetIdle /\ NoObserver /\ NoEnvelope
    /\ worker = NoWorker /\ filesystem = NoFilesystem /\ NoExtra
    /\ \E in \in PruneInputs :
          applied = [fn |-> "prune input", args |-> in, result |-> << >>]

PruneNext == PruneOnce \/ PruneAgain

PruneSpec == PruneInit /\ [][PruneNext]_vars

FnInit == DatasetIdle /\ NoObserver /\ NoEnvelope /\ applied = NotApplied /\ worker = NoWorker /\ filesystem = NoFilesystem /\ NoExtra

FnNext ==
    \/ ApplyScheduleNextMessage
    \/ ApplyScheduleNextDelay
    \/ ApplyTerminalStateFrom
    \/ ApplyScheduleArgFromStr

\* the functions of the program applied to inputs of bounded size
FnSpec == FnInit /\ [][FnNext]_vars

\* ---------------------------------------------------- snapshot cadence
\* the scenario's clock: one instant of the model is a period of the
\* 15-minute schedule, and instant 0 is 00:00:00
Minutes(t) == 15 * t

\* a dataset with snapshotting enabled on a periodic schedule and no snapshot
\* yet, whose actor is constructed at 00:00:00
CadenceInit ==
    /\ model \in { [snapshotting |-> TRUE, snapshot_schedule |-> Some(s),
                     pruning |-> FALSE, snapshot_retention |-> None] :
                       s \in {ScheduleEvery, ScheduleOnce} }
    /\ now = 0
    /\ status = "new"
    /\ terminal = "none"
    /\ snapshots = << >>
    /\ disk = {}
    /\ snapshot_schedule = None
    /\ prune_schedule = None
    /\ active_sends_holds = << >>
    /\ mailbox = << >>
    /\ timers = << >>
    /\ pc = "idle"
    /\ cur = NoRequest
    /\ children = [a \in ActorIds |-> "unborn"]
    /\ active_actors = {}
    /\ ready = << >>
    /\ published = << >>
    /\ nextUuid = FirstNewUuid
    /\ last = NoOutcome
    /\ NoObserver
    /\ NoEnvelope
    /\ applied = NotApplied /\ worker = NoWorker /\ filesystem = NoFilesystem /\ NoExtra

\* simulated time passes, to the end of the schedules, when the actor has
\* handled what it was sent
CadenceTime ==
    /\ mailbox = << >>
    /\ pc = "idle"
    /\ Tick(FarFuture)

\* the SnapshotTick handler when create_local_snapshot succeeds, which is
\* what the scenario takes every creation to do
SnapshotSucceeds ==
    /\ HandleSnapshot
    /\ published'[2].stage = "Succeeded"

CadenceNext ==
    \/ Started
    \/ CadenceTime
    \/ TimerFire
    \/ SnapshotSucceeds
    \/ HandleGetSnapshots
    \/ HandleGetSnapshotSender
    \/ HandleGetSnapshotHolder
    \/ HandleGetActorStatus
    \/ HandleStop
    \/ PostRequest
    \/ PostStop

\* the snapshot cadence scenario
CadenceSpec == CadenceInit /\ [][CadenceNext]_vars

\* --------------------------------------------------------------- worker
\* a pool of the entity state: whether BtrfsPool::validate accepts it, and for
\* each of its datasets and containers whether validate accepts that
PoolModels ==
    [ valid : BOOLEAN,
      datasets : { << TRUE >>, << FALSE >> },
      containers : { << >>, << TRUE >>, << FALSE >> } ]

\* sequences of at most n pools
PoolLists(n) == UNION { [1..k -> PoolModels] : k \in 0..n }

\* a sync from the dataset of a pool to the first container of that pool
SyncModels(pools) ==
    { [dataset |-> << i, 1 >>, container |-> << i, 1 >>] : i \in 1..Len(pools) }

\* storage::load_entity_state: pools, and no sync or one
WorkerEntities ==
    UNION { { [pools |-> pools, syncs |-> << >>] }
            \cup { [pools |-> pools, syncs |-> << s >>] : s \in SyncModels(pools) } :
               pools \in PoolLists(MaxPools) }

\* the children named `field` of the pools from the i-th on, in the order of
\* pools.iter().flat_map(..): << pool, position, valid >>
RECURSIVE Children(_, _, _)
Children(pools, field, i) ==
    IF i > Len(pools) THEN << >>
    ELSE [ j \in 1..Len(pools[i][field]) |-> << i, j, pools[i][field][j] >> ]
         \o Children(pools, field, i + 1)

\* a variant of Collect that leaves out what fails validation
CollectValid(valid) ==
    [ok |-> TRUE, calls |-> Len(valid)]

\* collect::<Result<Vec<_>>>() over validate: validation goes on, in order,
\* up to the first failure
Collect(valid) ==
    LET bad == { i \in 1..Len(valid) : ~valid[i] }
    IN  IF bad = {} THEN [ok |-> TRUE, calls |-> Len(valid)]
        ELSE [ok |-> FALSE, calls |-> CHOOSE i \in bad : \A j \in bad : i <= j]

\* service(): storage::load_entity_state
LoadEntities ==
    /\ worker.pc = "start"
    /\ worker' = [worker EXCEPT !.pc = "loaded", !.log = Append(@, << "load" >>)]
    /\ UNCHANGED << dataset, observer, envelope, applied, filesystem, extra >>

\* service(): ObservationManager::attach_observers
AttachObservers ==
    /\ worker.pc = "loaded"
    /\ worker' = [worker EXCEPT !.pc = "attached",
                                !.log = Append(@, << "observers" >>)]
    /\ UNCHANGED << dataset, observer, envelope, applied, filesystem, extra >>

\* one construction stage of service(): every validate call is logged, and a
\* failure returns the error
Construct(from, to, what, items) ==
    /\ worker.pc = from
    /\ LET c == Collect([ i \in 1..Len(items) |-> items[i][3] ])
       IN  worker' =
              [worker EXCEPT
                 !.pc = IF c.ok THEN to ELSE "returned",
                 !.result = IF c.ok THEN @ ELSE "Err",
                 !.log = @ \o [ i \in 1..c.calls |->
                                  << what, items[i][1], items[i][2] >> ]]
    /\ UNCHANGED << dataset, observer, envelope, applied, filesystem, extra >>

\* service(): BtrfsPool::validate of every pool
ConstructPools ==
    Construct("attached", "pools", "pool",
              [ i \in 1..Len(worker.entities.pools) |->
                  << i, 0, worker.entities.pools[i].valid >> ])

\* service(): BtrfsDataset::validate of every dataset of every pool
ConstructDatasets ==
    Construct("pools", "datasets", "dataset",
              Children(worker.entities.pools, "datasets", 1))

\* service(): BtrfsContainer::validate of every container of every pool
ConstructContainers ==
    Construct("datasets", "containers", "container",
              Children(worker.entities.pools, "containers", 1))

\* the jobs of service(): a snapshot and a prune job for every dataset, then
\* a sync job for every sync
Jobs(entities) ==
    LET ds == Children(entities.pools, "datasets", 1)
    IN  [ k \in 1..(2 * Len(ds)) |->
            << IF k % 2 = 1 THEN "snapshot" ELSE "prune",
               ds[(k + 1) \div 2][1], ds[(k + 1) \div 2][2] >> ]
        \o [ k \in 1..Len(entities.syncs) |-> << "sync", k, 0 >> ]

\* a sync names a dataset and a container that were constructed
Found(entities, sync) ==
    /\ sync.dataset[2] <= Len(entities.pools[sync.dataset[1]].datasets)
    /\ sync.container[2] <= Len(entities.pools[sync.container[1]].containers)

\* service(): the jobs are built; a sync whose dataset or container is not
\* found panics in expect
BuildJobs ==
    /\ worker.pc = "containers"
    /\ LET syncs == worker.entities.syncs
           missing == { k \in 1..Len(syncs) : ~Found(worker.entities, syncs[k]) }
           built == IF missing = {} THEN Len(syncs)
                    ELSE (CHOOSE k \in missing : \A l \in missing : k <= l) - 1
       IN  worker' =
              [worker EXCEPT
                 !.pc = IF missing = {} THEN "jobs" ELSE "panicked",
                 !.log = @ \o [ k \in 1..built |-> << "sync", k, 0 >> ]]
    /\ UNCHANGED << dataset, observer, envelope, applied, filesystem, extra >>

\* the ready_jobs of a round: the jobs whose is_ready holds, and from the
\* second round on only those whose next_check is zero as well
ReadyJobs(rounds, is_ready, due) ==
    IF rounds = 0 THEN is_ready ELSE is_ready \cap due

\* a round that goes on with the jobs after the one that failed
RunRoundThrough(ready_jobs, failed) == ready_jobs

\* for job in ready_jobs { job.run()?; }: the ready jobs run in order up to
\* the one that fails, or all of them when none fails (failed = 0)
RunRound(ready_jobs, failed) ==
    { k \in ready_jobs : failed = 0 \/ k <= failed }

\* the jobs a round finds due: all of them, or all but one
DueSets(jobs) == { jobs } \cup { jobs \ { k } : k \in jobs }

\* the jobs whose is_ready holds in a round: none, or some jobs in a row
ReadinessSets(jobs) == { {} } \cup { a..b : a, b \in jobs }

\* service(): one round of the job loop: the ready jobs run in order until one
\* fails; with no ready job the worker returns Ok; an is_ready or a
\* next_check that returns an error panics in expect
RunReadyJobs ==
    /\ worker.pc = "jobs"
    /\ LET jobs == 1..Len(Jobs(worker.entities))
       IN  \/ /\ jobs # {}
              /\ worker' = [worker EXCEPT !.pc = "panicked"]
           \/ \E is_ready \in ReadinessSets(jobs), due \in DueSets(jobs) :
                 LET runnable == ReadyJobs(worker.rounds, is_ready, due)
                 IN  /\ worker.rounds >= MaxRounds => runnable = {}
                     /\ IF runnable = {}
                        THEN worker' = [worker EXCEPT !.pc = "returned", !.result = "Ok",
                                                      !.ready = {}, !.round = {}]
                        ELSE \E failed \in runnable \cup {0} :
                                worker' =
                                   [worker EXCEPT
                                      !.ready = runnable,
                                      !.round = RunRound(runnable, failed),
                                      !.failed = failed,
                                      !.ran = @ \cup RunRound(runnable, failed),
                                      !.rounds = @ + 1,
                                      !.pc = IF failed = 0 THEN @ ELSE "returned",
                                      !.result = IF failed = 0 THEN @ ELSE "Err"]
    /\ UNCHANGED << dataset, observer, envelope, applied, filesystem, extra >>

WorkerInit ==
    /\ DatasetIdle /\ NoObserver /\ NoEnvelope /\ applied = NotApplied
    /\ filesystem = NoFilesystem /\ NoExtra
    /\ \E entities \in WorkerEntities :
          worker = [pc |-> "start", entities |-> entities, log |-> << >>,
                    ran |-> {}, rounds |-> 0, result |-> "none",
                    ready |-> {}, round |-> {}, failed |-> 0]

WorkerNext ==
    \/ LoadEntities
    \/ AttachObservers
    \/ ConstructPools
    \/ ConstructDatasets
    \/ ConstructContainers
    \/ BuildJobs
    \/ RunReadyJobs

\* the worker's service()
WorkerSpec == WorkerInit /\ [][WorkerNext]_vars

\* ------------------------------------------------------------- properties
SnapshotUuids(list) == { list[i].uuid : i \in 1..Len(list) }

\* the uuids that some hold record names as its send or parent snapshot
HeldUuids ==
    { r.send : r \in Range(active_sends_holds) }
    \cup { r.parent[1] : r \in { h \in Range(active_sends_holds) : h.parent # None } }

\* the step in which the handler of the message at the head of the mailbox runs
Handles(kind) == Takes(kind) /\ mailbox' = Tail(mailbox)

\* C1: whenever a PruneTick is handled, no snapshot whose uuid is the send
\* or the parent uuid of a hold record is removed from the snapshot list or
\* deleted from the filesystem, whatever the retention rule says of it
C1_HoldSafety ==
    [][ Handles("Prune") =>
          \A u \in HeldUuids :
              /\ u \in SnapshotUuids(snapshots) => u \in SnapshotUuids(snapshots')
              /\ u \in disk => u \in disk' ]_vars

\* C1 witness: a prune has run and kept the parent snapshot of a hold record
\* that the retention rule alone does not retain
C1_HeldParentSurvivesPrune ==
    /\ Len(published) = 2
    /\ published[1].event = "DatasetPrune"
    /\ \E r \in Range(active_sends_holds) :
          /\ r.parent # None
          /\ \E i \in 1..Len(snapshots) :
                /\ snapshots[i].uuid = r.parent[1]
                /\ i \notin RuleKeeps(snapshots, now, RuleRecent)
                /\ snapshots[i].uuid \in disk

\* C2: while a sender or holder request awaits the start of its child, the
\* snapshots it resolved are still in the snapshot list and on the
\* filesystem: no PruneTick is handled between the resolution of the uuids
\* and the recording of the hold
C2_ResolvedSnapshotsAwaitHold ==
    pc # "idle" =>
        /\ cur.send_snapshot # None
        /\ cur.send_snapshot[1] \in Range(snapshots)
        /\ cur.send_snapshot[1].uuid \in disk
        /\ cur.parent_snapshot # None =>
              /\ cur.parent_snapshot[1] \in Range(snapshots)
              /\ cur.parent_snapshot[1].uuid \in disk

\* C2 witness: a request awaits its child while a PruneTick waits in the
\* mailbox that would delete the snapshot the request resolved
C2_PruneWaitsBehindRequest ==
    /\ pc # "idle"
    /\ mailbox # << >>
    /\ Head(mailbox).type = "Prune"
    /\ model.snapshot_retention # None
    /\ cur.send_snapshot[1].uuid \in
          prune_btrfs_snapshots(snapshots, Holds(active_sends_holds),
                                model.snapshot_retention[1].rule, now).deleted

\* the replies of one kind among the replies a handler posted
RepliesOf(replies, kind) == { i \in 1..Len(replies) : replies[i].kind = kind }

\* C3: when the sender handler has resolved its uuids and its child has
\* started, the hold record (child, send uuid, parent uuid) is in the hold
\* set when SenderReady is posted, exactly one SenderReady is posted for the
\* request, and no other step posts a SenderReady
C3_HoldBeforeSenderReady ==
    [][ /\ (pc = "startingSender" /\ pc' = "idle" /\ children'[cur.actor] = "live") =>
              /\ Cardinality(RepliesOf(ready', "SenderReady")) = 1
              /\ Len(ready') = 1
              /\ ready'[1].addr = Some(cur.actor)
              /\ \E i \in 1..Len(active_sends_holds') :
                    /\ active_sends_holds'[i].actor = cur.actor
                    /\ active_sends_holds'[i].send = cur.send_snapshot[1].uuid
                    /\ active_sends_holds'[i].parent =
                          IF cur.parent_snapshot = None THEN None
                          ELSE Some(cur.parent_snapshot[1].uuid)
        /\ (ready' # ready /\ RepliesOf(ready', "SenderReady") # {}) =>
              pc = "startingSender" ]_vars

\* C3 witness: a SenderReady with the sender's address has been posted and
\* the hold of that sender names a send and a parent snapshot
C3_SenderReadyPosted ==
    /\ Len(ready) = 1
    /\ ready[1].kind = "SenderReady"
    /\ ready[1].addr # None
    /\ \E r \in Range(active_sends_holds) :
          r.actor = ready[1].addr[1] /\ r.parent # None

\* the snapshot of the list that has the uuid
SnapshotOf(uuid) == CHOOSE v \in Range(snapshots) : v.uuid = uuid

\* C4: a sender or holder request whose send uuid, or whose parent uuid when
\* it gives one, is not in the snapshot list fails with a not-found error:
\* no child is created, no reply is sent, and the hold set, the snapshot
\* list and the filesystem are as they were
C4_NotFoundLeavesState ==
    [][ \A k \in ChildRequests :
          LET m == Head(mailbox)
              noSend == m.a \notin SnapshotUuids(snapshots)
              noParent == m.b # None /\ m.b[1] \notin SnapshotUuids(snapshots)
          IN  (Handles(k) /\ (noSend \/ noParent)) =>
                 /\ last'.type = k
                 /\ last'.result = IF noSend THEN "Snapshot not found."
                                   ELSE "Parent not found"
                 /\ pc' = "idle"
                 /\ ready' = << >>
                 /\ UNCHANGED << children, active_sends_holds, snapshots, disk >> ]_vars

\* C4 witness: a request that named a snapshot of the list and a parent
\* that is not in the list has failed
C4_ParentNotFound ==
    /\ last.type \in ChildRequests
    /\ last.result = "Parent not found"
    /\ snapshots # << >>

\* C5: the reply to a holder request whose child started carries the
\* holder's address and the paths of the snapshots that have the requested
\* send and parent uuids; both uuids are in the hold set from then on, in
\* every step but the one that handles the Finished message of that holder
\* or the Stop event, and every PruneTick hands them to the retention engine
C5_HolderReadyAndHold ==
    [][ /\ (Handles("GetSnapshotHolder") /\ pc' = "startingHolder") =>
              /\ cur'.send_snapshot = Some(SnapshotOf(Head(mailbox).a))
              /\ cur'.parent_snapshot =
                    IF Head(mailbox).b = None THEN None
                    ELSE Some(SnapshotOf(Head(mailbox).b[1]))
        /\ (pc = "startingHolder" /\ pc' = "idle" /\ children'[cur.actor] = "live") =>
              /\ ready' =
                    << [kind |-> "HolderReady", addr |-> Some(cur.actor),
                        snapshot_path |-> Some(cur.send_snapshot[1].path),
                        parent_snapshot_path |->
                            IF cur.parent_snapshot = None THEN None
                            ELSE Some(cur.parent_snapshot[1].path)] >>
              /\ \E r \in Range(active_sends_holds') :
                    /\ r.actor = cur.actor
                    /\ r.send = cur.send_snapshot[1].uuid
                    /\ cur.parent_snapshot # None =>
                          r.parent = Some(cur.parent_snapshot[1].uuid)
        /\ \A r \in Range(active_sends_holds) :
              \/ r \in Range(active_sends_holds')
              \/ Handles("Finished") /\ Head(mailbox).a = r.actor
              \/ Takes("Stop") /\ status' # "running"
        /\ Handles("Prune") => HeldUuids \subseteq Holds(active_sends_holds) ]_vars

\* C5 witness: a HolderReady with the holder's address and two distinct
\* paths has been sent, and the hold of that holder is in the hold set
C5_HolderReadySent ==
    /\ Len(ready) = 1
    /\ ready[1].kind = "HolderReady"
    /\ ready[1].addr # None
    /\ ready[1].parent_snapshot_path # None
    /\ ready[1].parent_snapshot_path # ready[1].snapshot_path
    /\ \E r \in Range(active_sends_holds) : r.actor = ready[1].addr[1]

\* C6: handling Finished(actor_id) removes the hold records of that actor
\* and no other: the other records keep their order, the snapshot list and
\* the filesystem are unchanged, and when no record matches nothing but the
\* mailbox changes
C6_FinishedRemovesMatching ==
    [][ Handles("Finished") =>
          LET id == Head(mailbox).a
              others == { i \in 1..Len(active_sends_holds) :
                            active_sends_holds[i].actor # id }
          IN  /\ Len(active_sends_holds') = Cardinality(others)
              /\ \A i \in others :
                    active_sends_holds'[Cardinality({ j \in others : j <= i })]
                        = active_sends_holds[i]
              /\ UNCHANGED << snapshots, disk >>
              /\ others = 1..Len(active_sends_holds) =>
                    UNCHANGED << active_sends_holds, snapshots, disk, children,
                                 timers, status, terminal, pc, cur, active_actors,
                                 snapshot_schedule, prune_schedule, nextUuid >> ]_vars

\* C6 witness: the Finished message of a stopped child has been handled and
\* has removed its hold record, and the record of a live child is still held
C6_OneHoldReleased ==
    /\ status = "running"
    /\ \E a \in ActorIds : \E b \in ActorIds :
          /\ children[a] = "stopped"
          /\ children[b] = "live"
          /\ \A i \in 1..Len(mailbox) : mailbox[i].type # "Finished"
          /\ \A r \in Range(active_sends_holds) : r.actor # a
          /\ \E r \in Range(active_sends_holds) : r.actor = b

\* the hold records of one child actor
HoldsOf(actor) == { r \in Range(active_sends_holds) : r.actor = actor }

\* C7: a running actor has a hold record for every child that is alive, and
\* once a child has stopped, its Finished message reaches the actor and the
\* actor, as long as it processes its mailbox, removes the child's hold
\* record: no hold outlives its finished child
C7_HoldLifetime ==
    /\ [](\A a \in ActorIds :
            (status = "running" /\ children[a] = "live") => HoldsOf(a) # {})
    /\ \A a \in ActorIds : (children[a] = "stopped") ~> (HoldsOf(a) = {})

\* C7 witness: a child has stopped, its hold record is still in the hold
\* set and its Finished message waits in the mailbox
C7_FinishedPending ==
    \E a \in ActorIds :
        /\ children[a] = "stopped"
        /\ HoldsOf(a) # {}
        /\ \E i \in 1..Len(mailbox) :
              mailbox[i].type = "Finished" /\ mailbox[i].a = a

\* C8: when the actor stops it empties its hold set and stops exactly the
\* children of its hold records that are alive; it reports its terminal
\* state only when all of them have stopped, Cancelled iff there was such a
\* child and Succeeded otherwise
C8_StoppedJoinsChildren ==
    /\ [](terminal \in {"Succeeded", "Cancelled"} =>
            /\ status = "stopped"
            /\ active_sends_holds = << >>
            /\ \A a \in active_actors : children[a] = "stopped"
            /\ terminal = "Cancelled" <=> active_actors # {})
    /\ [][ (Takes("Stop") /\ status' # "running") =>
              LET alive == { a \in ActorIds :
                               children[a] = "live" /\ HoldsOf(a) # {} }
              IN  /\ active_actors' = alive
                  /\ active_sends_holds' = << >>
                  /\ \A a \in alive : children'[a] = "stopping"
                  /\ \A a \in ActorIds \ alive : children'[a] = children[a]
                  /\ alive # {} => terminal' = "none" ]_vars

\* C8 witness: the actor has reported Cancelled after the children it
\* stopped have finished, while the record of a child that was already
\* gone did not count
C8_CancelledAfterJoin ==
    /\ terminal = "Cancelled"
    /\ active_actors # {}
    /\ \E a \in ActorIds \ active_actors : children[a] = "stopped"

\* the snapshot schedule has an occurrence after the instant
HasNextSnapshot(at) ==
    /\ snapshot_schedule # None
    /\ \E t \in Occurrences(snapshot_schedule[1]) : t > at

\* C9: handling a SnapshotTick appends exactly the new snapshot to the list
\* when create_local_snapshot succeeds and leaves the list as it was when
\* it fails; either way the actor keeps running and one next SnapshotTick
\* is scheduled when the schedule has an occurrence after now, none otherwise
C9_SnapshotTick ==
    [][ Handles("Snapshot") =>
          /\ Len(published') = 2
          /\ published'[2].stage = "Succeeded" =>
                /\ Len(snapshots') = Len(snapshots) + 1
                /\ SubSeq(snapshots', 1, Len(snapshots)) = snapshots
                /\ snapshots'[Len(snapshots')].uuid \notin SnapshotUuids(snapshots)
                /\ snapshots'[Len(snapshots')].uuid \in disk'
          /\ published'[2].stage = "Failed" => UNCHANGED << snapshots, disk >>
          /\ published'[2].stage \in {"Succeeded", "Failed"}
          /\ status' = "running"
          /\ Len(timers') = Len(timers) + (IF HasNextSnapshot(now) THEN 1 ELSE 0)
          /\ SubSeq(timers', 1, Len(timers)) = timers
          /\ HasNextSnapshot(now) =>
                /\ timers'[Len(timers')].msg = "Snapshot"
                /\ timers'[Len(timers')].due > now
                /\ timers'[Len(timers')].due \in Occurrences(snapshot_schedule[1]) ]_vars

\* C9 witness: create_local_snapshot has failed, the actor is running and
\* the next SnapshotTick is scheduled
C9_FailedSnapshotRescheduled ==
    /\ Len(published) = 2
    /\ published[2].event = "DatasetSnapshot"
    /\ published[2].stage = "Failed"
    /\ status = "running"
    /\ \E i \in 1..Len(timers) : timers[i].msg = "Snapshot" /\ timers[i].due > now

\* the messages of one kind that are scheduled and not yet handled
Outstanding(kind) ==
    Cardinality({ i \in 1..Len(timers) : timers[i].msg = kind })
    + Cardinality({ i \in 1..Len(mailbox) : mailbox[i].type = kind })

\* the send_later timers of one kind
ScheduledTicks(list, kind) ==
    Cardinality({ i \in 1..Len(list) : list[i].msg = kind })

\* C10: at most one SnapshotTick and at most one PruneTick is scheduled and
\* not yet handled; a tick is scheduled one at a time, by started or by the
\* handler of a tick of the same kind
C10_OneTickOutstanding ==
    /\ [](Outstanding("Snapshot") <= 1 /\ Outstanding("Prune") <= 1)
    /\ [][ \A kind \in {"Snapshot", "Prune"} :
              ScheduledTicks(timers', kind) > ScheduledTicks(timers, kind) =>
                 /\ status = "new" \/ Handles(kind)
                 /\ ScheduledTicks(timers', kind) = ScheduledTicks(timers, kind) + 1 ]_vars

\* C10 witness: a SnapshotTick has been handled and has scheduled its
\* successor while the PruneTick scheduled by started is still outstanding
C10_RescheduledTick ==
    /\ Outstanding("Prune") = 1
    /\ \E i \in 1..Len(timers) :
          timers[i].msg = "Snapshot" /\ timers[i].due > StartTime + 1

\* the schedule has an occurrence after the instant
HasNext(schedule, at) ==
    /\ schedule # None
    /\ \E t \in Occurrences(schedule[1]) : t > at

\* C11: after a PruneTick is handled by an actor that keeps running and
\* whose prune schedule has a further occurrence, a further PruneTick is
\* scheduled (only what is scheduled is ever delivered)
C11_PruneRescheduled ==
    [][ (Handles("Prune") /\ status' = "running" /\ HasNext(prune_schedule, now)) =>
          ScheduledTicks(timers', "Prune") = 1 ]_vars

\* C11 witness: a PruneTick has been handled, the actor runs, its prune
\* schedule has a further occurrence, and no PruneTick is outstanding
C11_NoFurtherPruneTick ==
    /\ Len(published) = 2
    /\ published[1].event = "DatasetPrune"
    /\ status = "running"
    /\ HasNext(prune_schedule, now)
    /\ Outstanding("Prune") = 0

\* a schedule model that is missing or that converts to a schedule
Convertible(opt) == opt = None \/ opt[1].period # 0

\* C12: started, when no configured schedule of an enabled feature is
\* invalid, completes normally, schedules a first SnapshotTick iff
\* snapshotting is enabled and a snapshot schedule is configured, and a
\* first PruneTick iff pruning is enabled and a retention with its
\* evaluation schedule is configured
C12_StartedSchedules ==
    [][ ( /\ status = "new" /\ status' # "new"
          /\ model.snapshotting => Convertible(model.snapshot_schedule)
          /\ (model.pruning /\ model.snapshot_retention # None) =>
                model.snapshot_retention[1].evaluation_schedule.period # 0 ) =>
          /\ status' = "running"
          /\ ScheduledTicks(timers', "Snapshot") = 1 <=>
                (model.snapshotting /\ model.snapshot_schedule # None)
          /\ ScheduledTicks(timers', "Prune") = 1 <=>
                (model.pruning /\ model.snapshot_retention # None)
          /\ Len(timers') = ScheduledTicks(timers', "Snapshot")
                            + ScheduledTicks(timers', "Prune") ]_vars

\* C12 witness: started has panicked for a dataset whose snapshotting is
\* enabled and that has no snapshot schedule
C12_StartedPanicked ==
    /\ status = "panicked"
    /\ model.snapshotting
    /\ model.snapshot_schedule = None
    /\ timers = << >>

C15_StartingThenFinal ==
    call # None =>
       /\ Len(call_published) <= 2
       /\ work_result # None => Len(call_published) >= 1
       /\ Len(call_published) >= 1 =>
              call_published[1] =
                 ObservableEventMessage(call[1].source, call[1].event,
                                        Stage("Starting"), call[1].inv)
       /\ Len(call_published) = 2 =>
              /\ work_result # None
              /\ call_published[2].stage.kind \in {"Succeeded", "Failed"}
              /\ call_published[2].source = call[1].source
              /\ call_published[2].event = call[1].event
       /\ returned # None => Len(call_published) = 2

\* C15 witness: an invocation has returned after a Starting and a Failed event
C15_BothPublished ==
    /\ returned # None
    /\ Len(call_published) = 2
    /\ call_published[1].stage.kind = "Starting"
    /\ call_published[2].stage.kind = "Failed"

\* C16: the final event of an invocation is Succeeded exactly when the work
\* returned Ok and Failed, carrying the rendered error, exactly when it
\* returned Err; the invocation returns the result of the work unchanged,
\* with an observer subscribed or without one
C16_FinalStageAndResult ==
    returned # None =>
       /\ returned = work_result
       /\ returned[1] \in WorkResults
       /\ call_published[2].stage = Stage("Succeeded") <=> returned[1].ok
       /\ call_published[2].stage.kind = "Failed" <=> ~returned[1].ok
       /\ ~returned[1].ok =>
              call_published[2].stage.error = DebugFormat(returned[1].value)

\* C16 witness: an invocation has returned Err while no observer is subscribed
C16_ErrReturnedUnobserved ==
    /\ returned # None
    /\ ~returned[1].ok
    /\ observer_status # "running"
    /\ call_published[2].stage.kind = "Failed"

\* the observer takes the first message of its mailbox and its handler returns
ObserverHandles(type) ==
    /\ ObserverTakes(type)
    /\ observer_mailbox' = Tail(observer_mailbox)
    /\ observer_status' = "running"

\* the pings a step appends
NewPings == SubSeq(pings', Len(pings) + 1, Len(pings'))

\* the configured observations of a source and an event, by position
Matching(source, event) ==
    { i \in 1..Len(router) :
         router[i].entity_id = source /\ router[i].event = event }

\* the pings of `list` that go to a health check
PingsTo(list, healthcheck_id) ==
    { k \in 1..Len(list) : list[k].url[2] = Hyphenated(healthcheck_id) }

\* C17: handling an event (source, event, stage), the observer emits exactly
\* one ping for each configured observation whose entity is the source and
\* whose event is the event, and none for any other observation; so a
\* DatasetPrune event of a dataset gives no ping for an observation of that
\* dataset's DatasetSnapshot
C17_OnePingPerMatch ==
    [][ ObserverHandles("Event") =>
           LET msg == Head(observer_mailbox)
           IN  /\ Len(pings') >= Len(pings)
               /\ SubSeq(pings', 1, Len(pings)) = pings
               /\ Len(NewPings) = Cardinality(Matching(msg.source, msg.event))
               /\ \A i \in 1..Len(router) :
                     Cardinality(PingsTo(NewPings, router[i].healthcheck_id)) =
                        IF i \in Matching(msg.source, msg.event) THEN 1 ELSE 0
      ]_vars

\* C17 witness: an observer of the DatasetSnapshot and the DatasetPrune of D1
\* has pinged, and only for DatasetPrune
C17_PruneOnlyPinged ==
    /\ \E i \in 1..Len(router) :
          router[i] = Observation("D1", "DatasetSnapshot", "hc1")
    /\ pings # << >>
    /\ \A k \in 1..Len(pings) : pings[k].url[2] = Hyphenated("hc2")

\* C18: the pings of one observed operation are in order, the /start ping
\* before the final one; the final ping has the empty suffix when the
\* operation succeeded and /fail when it failed; every ping goes to the base
\* url followed by the hyphenated health-check id and the suffix, and the
\* base url is https://hc-ping.com/ unless a custom url is configured
C18_StartThenFinalPing ==
    /\ [](/\ \A i, j \in 1..Len(pings) :
                (/\ pings[i].inv = pings[j].inv
                 /\ pings[i].url[3] = "/start"
                 /\ pings[j].url[3] # "/start") => i < j
          /\ \A i \in 1..Len(pings) \cup 1..Len(heartbeat_pings) :
                LET ping == IF i <= Len(pings) THEN pings[i]
                            ELSE heartbeat_pings[i]
                IN  /\ Len(ping.url) = 3
                    /\ ping.url[1] = emitter.url
                    /\ ping.url[3] \in {"/start", "", "/fail"}
          /\ NewEmitter(None).url = "https://hc-ping.com/"
          /\ \A custom_url \in CustomUrls \ {None} :
                NewEmitter(custom_url).url = custom_url[1])
    /\ [][ ObserverHandles("Event") =>
              LET msg == Head(observer_mailbox)
              IN  \A k \in 1..Len(NewPings) :
                     /\ NewPings[k].inv = msg.inv
                     /\ msg.stage.kind = "Starting" <=> NewPings[k].url[3] = "/start"
                     /\ msg.stage.kind = "Succeeded" <=> NewPings[k].url[3] = ""
                     /\ msg.stage.kind = "Failed" <=> NewPings[k].url[3] = "/fail"
                     /\ (/\ msg.stage.kind # "Starting"
                         /\ call # None
                         /\ call[1].inv = msg.inv) =>
                           /\ work_result # None
                           /\ work_result[1].ok <=> NewPings[k].url[3] = ""
         ]_vars

\* C18 witness: a health check of the default url was pinged with /start and
\* later with /fail for the same operation
C18_StartThenFailPinged ==
    \E i, j \in 1..Len(pings) :
       /\ i < j
       /\ pings[i].inv = pings[j].inv
       /\ pings[i].url = << "https://hc-ping.com/", Hyphenated("hc1"), "/start" >>
       /\ pings[j].url = << "https://hc-ping.com/", Hyphenated("hc1"), "/fail" >>

\* C19: a failed emit (a transport error or a status other than 200) is only
\* logged: the handler still emits once, and only once, for every matching
\* observation, the observer keeps running with its configuration, its timer
\* and the later messages of its mailbox, and neither the envelope's result
\* nor the state of the actor that published changes
C19_FailedEmitOnlyLogged ==
    [][ (/\ ObserverTakes("Event") \/ ObserverTakes("Heartbeat")
         /\ Len(observer_mailbox') < Len(observer_mailbox)
         /\ \E k \in 1..Len(emitted') : emitted'[k] = "error"
         /\ observer_status' # "stopped") =>
           LET msg == Head(observer_mailbox)
               matching == IF msg.type = "Event"
                           THEN Matching(msg.source, msg.event) ELSE {}
           IN  /\ observer_status' = "running"
               /\ observer_mailbox' = Tail(observer_mailbox)
               /\ msg.type = "Event" =>
                     /\ Len(emitted') = Cardinality(matching)
                     /\ Len(NewPings) = Cardinality(matching)
                     /\ \A i \in matching :
                           Cardinality(PingsTo(NewPings, router[i].healthcheck_id)) = 1
                     /\ UNCHANGED heartbeat_pings
               /\ msg.type = "Heartbeat" =>
                     /\ Len(emitted') = 1
                     /\ Len(heartbeat_pings') = Len(heartbeat_pings) + 1
                     /\ UNCHANGED pings
               /\ UNCHANGED << router, emitter, heartbeat_config, interval_due,
                               observer_clock >>
               /\ UNCHANGED << extra, filesystem, worker, applied, dataset, envelope >>
      ]_vars

\* C19 witness: the first emit of a handler failed, the handler went on to
\* the next observation, and the observer runs with a message waiting
C19_PingedAfterFailure ==
    /\ emitted = << "error", "ok" >>
    /\ Len(pings) >= 2
    /\ pings[Len(pings)].url[2] = Hyphenated("hc3")
    /\ observer_status = "running"
    /\ observer_mailbox # << >>

\* the heartbeat messages waiting in the observer's mailbox
WaitingHeartbeats ==
    Cardinality({ i \in 1..Len(observer_mailbox) :
                     observer_mailbox[i].type = "Heartbeat" })

\* C20: with a heartbeat configured the running observer has a heartbeat
\* sent or pinged for its start and for every frequency period since, each
\* ping going to the heartbeat check with the success suffix; with none
\* configured no HeartbeatMessage is ever scheduled or handled, so the
\* handler's expect never fails
C20_HeartbeatPerPeriod ==
    /\ heartbeat_config = None =>
          /\ interval_due = None
          /\ WaitingHeartbeats = 0
          /\ heartbeat_pings = << >>
          /\ observer_status # "panicked: heartbeat"
    /\ (heartbeat_config # None /\ observer_status = "running") =>
          LET sent == Len(heartbeat_pings) + WaitingHeartbeats
              periods == observer_clock \div heartbeat_config[1].frequency
          IN  /\ interval_due # None
              /\ \/ sent = 1 + periods
                 \/ IntervalDue /\ sent = periods
    /\ \A k \in 1..Len(heartbeat_pings) :
          /\ heartbeat_config # None
          /\ heartbeat_pings[k].url =
                << emitter.url, Hyphenated(heartbeat_config[1].healthcheck_id), "" >>

\* C20 witness: the observer has pinged its heartbeat check at its start and
\* after each of two periods
C20_ThreeHeartbeats ==
    /\ heartbeat_config # None
    /\ heartbeat_config[1].frequency = 1
    /\ observer_status = "running"
    /\ observer_clock = 2
    /\ Len(heartbeat_pings) = 3

\* started reaches the conversion of the snapshot schedule and it fails
SnapshotConversionFails(m) ==
    /\ m.snapshotting
    /\ m.snapshot_schedule # None
    /\ m.snapshot_schedule[1].period = 0

\* started reaches the conversion of the evaluation schedule and it fails
PruneConversionFails(m) ==
    /\ m.snapshotting => (m.snapshot_schedule # None /\ m.snapshot_schedule[1].period # 0)
    /\ m.pruning
    /\ m.snapshot_retention # None
    /\ m.snapshot_retention[1].evaluation_schedule.period = 0

\* C21: when the conversion of the snapshot schedule or of the evaluation
\* schedule fails in started, the actor stops with terminal state Failed; and
\* an actor that has stopped as Failed handles no SnapshotTick and no
\* PruneTick, takes no message and keeps its snapshots, also when a tick was
\* scheduled before the conversion failed
C21_StartedFails ==
    /\ [][ (/\ status = "new"
            /\ status' # "new"
            /\ SnapshotConversionFails(model) \/ PruneConversionFails(model)) =>
              /\ status' = "stopped"
              /\ terminal' = "Failed" ]_vars
    /\ [][ (status = "stopped" /\ terminal = "Failed") =>
              /\ ~Handles("Snapshot")
              /\ ~Handles("Prune")
              /\ mailbox' = << >>
              /\ UNCHANGED << status, terminal, snapshots, disk, published,
                              snapshot_schedule, prune_schedule >> ]_vars

\* C21 witness: started scheduled a SnapshotTick, then failed on the
\* evaluation schedule; the tick came due and was dropped
C21_ScheduledTickDropped ==
    /\ status = "stopped"
    /\ terminal = "Failed"
    /\ snapshot_schedule # None
    /\ PruneConversionFails(model)
    /\ now > StartTime
    /\ timers = << >>
    /\ mailbox = << >>

\* the occurrences of a cron schedule strictly after an instant
LaterOccurrences(c, at) ==
    { t \in 0..FarFuture : t % c.period = 0 /\ t <= c.last /\ t > at }

\* C22: called with a schedule at an instant, schedule_next_message schedules
\* nothing, without an error, when the schedule has no occurrence after the
\* instant; otherwise it schedules exactly one message, with a delay of the
\* first occurrence strictly after the instant minus the instant
C22_NextDelay ==
    (applied.fn = "schedule_next_message" /\ applied.args.schedule # None) =>
       LET at == applied.args.at
           later == LaterOccurrences(applied.args.schedule[1], at)
           sent == applied.result.sent
       IN  /\ ~applied.result.panic
           /\ later = {} => sent = << >>
           /\ later # {} =>
                 /\ Len(sent) = 1
                 /\ sent[1].due - at > 0
                 /\ sent[1].due \in later
                 /\ \A t \in later : sent[1].due - at <= t - at

\* C22 witness: a schedule with occurrences at 0 and 2, asked at 0, gives a
\* message due at 2; an exhausted one gives none
C22_ScheduledAfterOccurrence ==
    /\ applied.fn = "schedule_next_message"
    /\ applied.args = [schedule |-> Some([period |-> 2, last |-> 2]), at |-> 0]
    /\ applied.result.sent = << [msg |-> "Snapshot", due |-> 2] >>

\* the instant a call of schedule_next_delay points at
NextInstant(k) == applied.args.afters[k] + applied.result[k][1]

\* C23 as stated: over calls with strictly increasing instants the results
\* are strictly increasing, read as the delays returned or as the instants
\* they point at
C23_ResultsStrictlyIncreasing ==
    applied.fn = "schedule_next_delay" =>
       \/ \A i, j \in 1..Len(applied.result) :
             (i < j /\ applied.result[i] # None /\ applied.result[j] # None) =>
                applied.result[i][1] < applied.result[j][1]
       \/ \A i, j \in 1..Len(applied.result) :
             (i < j /\ applied.result[i] # None /\ applied.result[j] # None) =>
                NextInstant(i) < NextInstant(j)

\* C23, amended: over calls with strictly increasing instants every result
\* points strictly after its own instant, the instants pointed at never
\* decrease, they increase strictly from a call to any later call made at or
\* after the instant the first one pointed at, and once a call finds the
\* schedule exhausted every later call does
C23_NextInstantsMonotone ==
    applied.fn = "schedule_next_delay" =>
       \A i, j \in 1..Len(applied.result) :
          /\ applied.result[i] # None => applied.result[i][1] > 0
          /\ (i < j /\ applied.result[i] = None) => applied.result[j] = None
          /\ (i < j /\ applied.result[i] # None /\ applied.result[j] # None) =>
                /\ NextInstant(i) <= NextInstant(j)
                /\ applied.args.afters[j] >= NextInstant(i) =>
                      NextInstant(i) < NextInstant(j)

\* C23 witness: two calls between two occurrences point at the same instant,
\* the second with the smaller delay
C23_SameOccurrenceTwice ==
    /\ applied.fn = "schedule_next_delay"
    /\ applied.args.afters = << 1, 2 >>
    /\ applied.result = << Some(2), Some(1) >>

\* 46 minutes after 00:00:00 with the 15-minute schedule, the actor running,
\* not asked to stop, and every tick that came due handled
After46Minutes ==
    /\ model.snapshot_schedule = Some(ScheduleEvery)
    /\ Minutes(now) <= 46 /\ 46 < Minutes(now + 1)
    /\ status = "running" /\ ~Stopping
    /\ pc = "idle"
    /\ \A i \in 1..Len(timers) : timers[i].due > now
    /\ \A i \in 1..Len(mailbox) : mailbox[i].type # "Snapshot"

\* the minutes after 00:00:00 at which the snapshots of the list were taken
SnapshotMinutes == [ i \in 1..Len(snapshots) |-> Minutes(snapshots[i].datetime) ]

\* C24 as stated: after 46 minutes the snapshot list has the snapshots of
\* 00:00, 00:15, 00:30 and 00:45
C24_FourSnapshotsListed ==
    After46Minutes =>
       \A t \in {0, 15, 30, 45} :
          \E i \in 1..Len(snapshots) : SnapshotMinutes[i] = t

\* C24, amended: after 46 minutes the snapshot list is exactly the three
\* snapshots of 00:15, 00:30 and 00:45; none is taken at the start, 00:00
C24_ThreeSnapshotsListed ==
    After46Minutes => SnapshotMinutes = << 15, 30, 45 >>

\* C24 witness: 46 minutes have passed and a listing returns three handles
C24_CadenceListed ==
    /\ After46Minutes
    /\ Len(snapshots) = 3
    /\ last.type = "GetSnapshots"
    /\ Len(last.snapshots) = 3

\* the positions of the worker's log that hold an event of a kind
LogOf(kind) == { i \in 1..Len(worker.log) : worker.log[i][1] = kind }

\* the entity state has a pool, a dataset or a container that fails validation
AnyInvalid(entities) ==
    \/ \E i \in 1..Len(entities.pools) : ~entities.pools[i].valid
    \/ \E i \in 1..Len(entities.pools) :
          \/ \E j \in 1..Len(entities.pools[i].datasets) :
                ~entities.pools[i].datasets[j]
          \/ \E j \in 1..Len(entities.pools[i].containers) :
                ~entities.pools[i].containers[j]

\* the datasets and the containers of the entity state
CountOf(entities, field) == Len(Children(entities.pools, field, 1))

\* C25: the worker loads its entities, then attaches the observers, and only
\* then constructs pools; a dataset or a container is constructed only when
\* every pool is; a sync pair is built only when every dataset and every
\* container is; and when a pool, a dataset or a container fails validation
\* the worker returns the error and no job is ever built or run
C25_StartupOrder ==
    /\ \A i \in LogOf("observers") : \E j \in LogOf("load") : j < i
    /\ \A i \in LogOf("pool") : \E j \in LogOf("observers") : j < i
    /\ \A i \in LogOf("dataset") \cup LogOf("container") :
          /\ \A j \in LogOf("pool") : j < i
          /\ Cardinality(LogOf("pool")) = Len(worker.entities.pools)
    /\ \A i \in LogOf("sync") :
          /\ \A j \in LogOf("dataset") \cup LogOf("container") : j < i
          /\ Cardinality(LogOf("dataset")) = CountOf(worker.entities, "datasets")
          /\ Cardinality(LogOf("container")) = CountOf(worker.entities, "containers")
    /\ worker.ran # {} =>
          /\ Cardinality(LogOf("dataset")) = CountOf(worker.entities, "datasets")
          /\ Cardinality(LogOf("container")) = CountOf(worker.entities, "containers")
          /\ Cardinality(LogOf("sync")) = Len(worker.entities.syncs)
    /\ AnyInvalid(worker.entities) =>
          /\ worker.ran = {}
          /\ LogOf("sync") = {}
          /\ worker.pc \notin {"containers", "jobs", "panicked"}
          /\ worker.result # "Ok"
          /\ worker.pc = "returned" => worker.result = "Err"

\* C25 witness: with every pool and every dataset constructed, a container
\* failed validation, and the worker returned the error with no job run
C25_ContainerRejected ==
    /\ worker.pc = "returned"
    /\ worker.result = "Err"
    /\ worker.ran = {}
    /\ LogOf("dataset") # {}
    /\ \E i \in LogOf("container") :
          ~worker.entities.pools[worker.log[i][2]].containers[worker.log[i][3]]

\* C26: the terminal state derived from a result is Succeeded for Ok,
\* Failed(retry = true) for an error with an ephemeral cause and
\* Failed(retry = false) for an error with a structural cause
C26_RetryFollowsCause ==
    applied.fn = "TerminalState::from" =>
       /\ applied.args.ok => applied.result.state = "Succeeded"
       /\ (~applied.args.ok /\ applied.args.value \in EphemeralCauses) =>
             (applied.result.state = "Failed" /\ applied.result.retry)
       /\ (~applied.args.ok /\ applied.args.value \in StructuralCauses) =>
             (applied.result.state = "Failed" /\ ~applied.result.retry)

\* C26 witness: an error with an ephemeral cause became Failed(retry = false)
C26_EphemeralNotRetried ==
    /\ applied.fn = "TerminalState::from"
    /\ applied.args = [ok |-> FALSE, value |-> "pipe broken"]
    /\ applied.result = [state |-> "Failed", retry |-> FALSE]

\* ---------------------------------------------------------------- the container's snapshots
\* file names are sequences of their dot-separated components

\* the names "%FT%H-%M-%SZ" gives the instants 0, 1 and 2
TimestampNames ==
    << "2021-01-01T00-00-00Z", "2021-01-01T00-15-00Z", "2021-01-01T00-30-00Z" >>
ReceiveInstants == 0..(Len(TimestampNames) - 1)

\* the name a snapshot taken at instant t carries
FormatTimestamp(t) == TimestampNames[t + 1]

\* NaiveDateTime::parse_from_str(name, "%FT%H-%M-%SZ"): the instant, or none
\* when the name is not a timestamp
ParseTimestamp(name) ==
    IF \E t \in ReceiveInstants : TimestampNames[t + 1] = name
    THEN Some(CHOOSE t \in ReceiveInstants : TimestampNames[t + 1] = name)
    ELSE None

\* Path::extension: the last component of a name with several components
extension(name) == IF Len(name) > 1 THEN Some(name[Len(name)]) ELSE None

\* Path::file_stem: the name without its extension, with its dots
file_stem(name) == IF Len(name) > 1 THEN SubSeq(name, 1, Len(name) - 1) ELSE name

\* Subvolume: the directory it is in, its name, uuid and received uuid
Subvolume(dir, name, uuid, received_uuid) ==
    [dir |-> dir, name |-> name, uuid |-> uuid, received_uuid |-> received_uuid]

\* the subvolumes an operator left in the container: none, or some whose
\* names are not those of received snapshots
ForeignSubvolumes ==
    { << >>,
      << Subvolume("D1", << "junk", "bcrcv" >>, 1, None) >>,
      << Subvolume("D1", << FormatTimestamp(0), "tmp" >>, 1, None) >>,
      << Subvolume("D1", << FormatTimestamp(0), "tmp", "bcrcv" >>, 1, None),
         Subvolume("D2", << "junk", "bcrcv" >>, 2, None) >> }

\* list_subvolumes(path): the subvolumes in the directory, in filesystem order
list_subvolumes(subvolumes, path) ==
    SelectSeq(subvolumes, LAMBDA s : s.dir = path)

\* BtrfsContainer::snapshot_container_path: the directory of a source dataset
snapshot_container_path(dataset_id) == dataset_id

\* BtrfsContainer::new_child_snapshot: the snapshot of a subvolume whose file
\* stem parses as a timestamp, or none
new_child_snapshot(subvolume) ==
    LET stem == file_stem(subvolume.name)
        parsed == IF Len(stem) = 1 THEN ParseTimestamp(stem[1]) ELSE None
    IN  IF parsed = None THEN None
        ELSE Some([subvolume |-> subvolume, datetime |-> parsed[1]])

\* sort_unstable_by_key(|s| s.datetime): some ascending order of the list
SortedByDatetime(list) ==
    { sorted \in [1..Len(list) -> Range(list)] :
         /\ \A x \in Range(list) :
               Cardinality({ i \in 1..Len(list) : list[i] = x })
                  = Cardinality({ i \in 1..Len(list) : sorted[i] = x })
         /\ \A i, j \in 1..Len(list) : i < j => sorted[i].datetime <= sorted[j].datetime }

\* the filter_map of BtrfsContainer::snapshots without the filter before it
ParsedAnyExtension(listed) ==
    LET parsable == SelectSeq(listed, LAMBDA s : new_child_snapshot(s) # None)
    IN  [ i \in 1..Len(parsable) |-> new_child_snapshot(parsable[i])[1] ]

\* the filter and the filter_map of BtrfsContainer::snapshots
Parsed(listed) ==
    LET suffixed == SelectSeq(listed, LAMBDA s : extension(s.name) = Some("bcrcv"))
        parsable == SelectSeq(suffixed, LAMBDA s : new_child_snapshot(s) # None)
    IN  [ i \in 1..Len(parsable) |-> new_child_snapshot(parsable[i])[1] ]

\* BtrfsContainer::snapshots without its sort
ContainerSnapshotsUnsorted(subvolumes, dataset_id) ==
    { Parsed(list_subvolumes(subvolumes, snapshot_container_path(dataset_id))) }

\* BtrfsContainer::snapshots: the lists it may return
ContainerSnapshots(subvolumes, dataset_id) ==
    SortedByDatetime(Parsed(list_subvolumes(subvolumes, snapshot_container_path(dataset_id))))

\* BtrfsContainerSnapshot::received_uuid: the received uuid, or a panic
received_uuid(snapshot) ==
    IF snapshot.subvolume.received_uuid = None THEN << "panicked" >>
    ELSE snapshot.subvolume.received_uuid[1]

\* impl From<T> for BtrfsContainerSnapshotHandle
ContainerSnapshotHandle(snapshot) ==
    IF received_uuid(snapshot) = << "panicked" >> THEN [panicked |-> TRUE]
    ELSE [panicked |-> FALSE,
          datetime |-> snapshot.datetime, uuid |-> snapshot.subvolume.uuid,
          source_snapshot |-> received_uuid(snapshot)]

\* the name of a subvolume is taken in its directory, with or without suffix
NameTaken(dir, name) ==
    \E i \in 1..Len(filesystem.subvolumes) :
       /\ filesystem.subvolumes[i].dir = dir
       /\ filesystem.subvolumes[i].name \in { << name >>, << name, "bcrcv" >> }

\* the receive side begins to receive the snapshot a source dataset took at
\* some instant: the incoming subvolume appears under the snapshot's name
BeginReceive ==
    /\ filesystem.created < MaxSubvolumes
    /\ \E dir \in Entities, t \in ReceiveInstants :
          /\ ~NameTaken(dir, FormatTimestamp(t))
          /\ filesystem' =
                [subvolumes |-> Append(filesystem.subvolumes,
                                       Subvolume(dir, << FormatTimestamp(t) >>,
                                                 filesystem.nextUuid, None)),
                 created |-> filesystem.created + 1,
                 nextUuid |-> filesystem.nextUuid + 1]
          /\ applied' = [fn |-> "BtrfsContainer::receive", args |-> dir,
                         result |-> FormatTimestamp(t)]
    /\ UNCHANGED << dataset, observer, envelope, worker, extra >>

\* the positions of the incoming subvolumes: those without a suffix
Incoming == { i \in 1..Len(filesystem.subvolumes) : Len(filesystem.subvolumes[i].name) = 1 }

\* the receive completes: the subvolume gets the source snapshot's uuid as
\* its received uuid
FinishReceive ==
    /\ \E i \in Incoming :
          /\ filesystem.subvolumes[i].received_uuid = None
          /\ filesystem' =
                [filesystem EXCEPT
                   !.subvolumes[i].received_uuid =
                      Some(<< filesystem.subvolumes[i].dir, filesystem.subvolumes[i].name[1] >>)]
          /\ applied' = [fn |-> "receive completed", args |-> filesystem.subvolumes[i].dir,
                         result |-> filesystem.subvolumes[i].name[1]]
    /\ UNCHANGED << dataset, observer, envelope, worker, extra >>

\* the receive side renames a completed incoming subvolume: it appends the
\* suffix; a rename that fails leaves the subvolume as it is
RenameReceived ==
    /\ \E i \in Incoming :
          /\ filesystem.subvolumes[i].received_uuid # None
          /\ filesystem' =
                [filesystem EXCEPT !.subvolumes[i].name = Append(@, "bcrcv")]
          /\ applied' = [fn |-> "rename", args |-> filesystem.subvolumes[i].dir,
                         result |-> filesystem.subvolumes[i].name[1]]
    /\ UNCHANGED << dataset, observer, envelope, worker, extra >>

\* the incoming subvolume of a cancelled receive is removed
RemoveIncoming ==
    /\ \E i \in Incoming :
          /\ filesystem.subvolumes[i].received_uuid = None
          /\ filesystem' =
                [filesystem EXCEPT !.subvolumes = RemoveAt(@, i)]
          /\ applied' = [fn |-> "delete_subvolume", args |-> filesystem.subvolumes[i].dir,
                         result |-> filesystem.subvolumes[i].name[1]]
    /\ UNCHANGED << dataset, observer, envelope, worker, extra >>

\* the container's snapshots of a source dataset are enumerated
ApplyContainerSnapshots ==
    /\ \E dataset_id \in Entities :
          \E list \in ContainerSnapshots(filesystem.subvolumes, dataset_id) :
             applied' = [fn |-> "BtrfsContainer::snapshots",
                         args |-> dataset_id,
                         result |-> list]
    /\ UNCHANGED << dataset, observer, envelope, worker, filesystem, extra >>

\* handles are built from the snapshots enumerated last
ApplyContainerSnapshotHandle ==
    /\ applied.fn = "BtrfsContainer::snapshots"
    /\ applied' = [fn |-> "BtrfsContainerSnapshotHandle::from",
                   args |-> applied.result,
                   result |-> [ i \in 1..Len(applied.result) |->
                                  ContainerSnapshotHandle(applied.result[i]) ]]
    /\ UNCHANGED << dataset, observer, envelope, worker, filesystem, extra >>

ContainerInit ==
    /\ DatasetIdle /\ NoObserver /\ NoEnvelope
    /\ applied = NotApplied /\ worker = NoWorker
    /\ \E foreign \in ForeignSubvolumes :
          filesystem = [subvolumes |-> foreign, created |-> 0,
                        nextUuid |-> Len(foreign) + 1]
    /\ NoExtra

ContainerNext ==
    \/ BeginReceive
    \/ FinishReceive
    \/ RenameReceived
    \/ RemoveIncoming
    \/ ApplyContainerSnapshots
    \/ ApplyContainerSnapshotHandle

ContainerSpec == ContainerInit /\ [][ContainerNext]_vars

\* a name that carries the suffix and whose stem is the name of an instant
IsReceivedName(name) ==
    \E t \in ReceiveInstants : name = << FormatTimestamp(t), "bcrcv" >>

\* the instant a received name stands for
InstantOf(name) == CHOOSE t \in ReceiveInstants : name = << FormatTimestamp(t), "bcrcv" >>

\* the subvolumes in the directory of the source dataset enumerated last
SeenInDirectory ==
    { s \in Range(filesystem.subvolumes) : s.dir = applied.args }

\* C27: the enumeration of a source dataset's container snapshots returns
\* exactly the subvolumes of that dataset's directory whose name carries the
\* .bcrcv suffix and whose stem is a timestamp, each once with the datetime
\* of its name, in ascending order of datetime; a subvolume without the
\* suffix is never among them
C27_EnumerationExact ==
    applied.fn = "BtrfsContainer::snapshots" =>
       LET result == applied.result
       IN  /\ { result[i].subvolume : i \in 1..Len(result) }
                = { s \in SeenInDirectory : IsReceivedName(s.name) }
           /\ \A i, j \in 1..Len(result) :
                 i # j => result[i].subvolume # result[j].subvolume
           /\ \A i \in 1..Len(result) :
                 result[i].datetime = InstantOf(result[i].subvolume.name)
           /\ \A i, j \in 1..Len(result) :
                 i < j => result[i].datetime <= result[j].datetime
           /\ \A i \in 1..Len(result) : Len(result[i].subvolume.name) > 1

\* C27 witness: two snapshots received in the reverse order of their
\* datetimes were enumerated in ascending order, while the directory also
\* held an incoming subvolume without the suffix and a suffixed subvolume
\* whose stem is no timestamp
C27_EnumeratedAmongOthers ==
    /\ applied.fn = "BtrfsContainer::snapshots"
    /\ Len(applied.result) = 2
    /\ applied.result[1].subvolume.uuid > applied.result[2].subvolume.uuid
    /\ \E s \in SeenInDirectory : Len(s.name) = 1
    /\ \E s \in SeenInDirectory : s.name[Len(s.name)] = "bcrcv" /\ ~IsReceivedName(s.name)

\* C28: every snapshot a container's enumeration returns has a received
\* uuid, and the handles built from the enumerated snapshots are built
\* without a panic, each with the received uuid as its source snapshot
C28_ReceivedUuidPresent ==
    /\ applied.fn = "BtrfsContainer::snapshots" =>
          \A i \in 1..Len(applied.result) :
             applied.result[i].subvolume.received_uuid # None
    /\ applied.fn = "BtrfsContainerSnapshotHandle::from" =>
          \A i \in 1..Len(applied.result) :
             /\ ~applied.result[i].panicked
             /\ Some(applied.result[i].source_snapshot)
                   = applied.args[i].subvolume.received_uuid

\* C28 witness: handles were built from two enumerated snapshots while an
\* incoming subvolume of the same directory had no received uuid yet
C28_HandlesBuilt ==
    /\ applied.fn = "BtrfsContainerSnapshotHandle::from"
    /\ Len(applied.result) = 2
    /\ \E s \in Range(filesystem.subvolumes) :
          /\ s.dir = applied.args[1].subvolume.dir
          /\ s.received_uuid = None
          /\ ParseTimestamp(s.name[1]) # None

\* an input has a whitespace character among its pieces
ContainsWhitespace(s) == \E i \in 1..Len(s) : s[i] \in Whitespace

\* C29: an input is parsed as a cron expression iff it contains whitespace
\* and as a human duration otherwise; a duration that converts gives the
\* schedule with that period, and one that does not convert gives the error
\* that advises a cron expression and no schedule
C29_CronIffWhitespace ==
    applied.fn = "ScheduleArg::from_str" =>
       /\ applied.result.treated_as = "cron" <=> ContainsWhitespace(applied.args)
       /\ applied.result.treated_as = "duration" <=> ~ContainsWhitespace(applied.args)
       /\ (applied.result.treated_as = "duration" /\ ParseDuration(applied.args) # None) =>
             \/ /\ applied.result.schedule # None
                /\ applied.result.schedule[1].every = ParseDuration(applied.args)[1]
                /\ applied.result.error = ""
             \/ /\ applied.result.schedule = None
                /\ applied.result.error = "use a cron expression"

\* C29 witness: a cron expression whose fields are separated by tabs was
\* parsed as a human duration and gave an error
C29_TabsNotCron ==
    /\ applied.fn = "ScheduleArg::from_str"
    /\ applied.args = << "0", Tab, "*/15", Tab, "*", Tab, "*", Tab, "*", Tab, "*" >>
    /\ applied.result.treated_as = "duration"
    /\ applied.result.schedule = None

\* C30: retention is idempotent: pruning what a prune kept, with the same
\* holds and the same rule, keeps all of it
C30_PruneIdempotent ==
    applied.fn = "prune again" => applied.result[2] = applied.result[1]

\* C30 witness: a prune that deleted a snapshot, kept one for the rule and
\* another only for its hold, was repeated on what it kept
C30_PrunedTwice ==
    /\ applied.fn = "prune again"
    /\ Len(applied.result[1]) < Len(applied.args.list)
    /\ \E i \in 1..Len(applied.result[1]) :
          applied.result[1][i].uuid \in Holds(applied.args.records)
    /\ \E i \in 1..Len(applied.result[1]) :
          applied.result[1][i].uuid \notin Holds(applied.args.records)
    /\ Len(applied.result[2]) = Len(applied.result[1])

\* ---------------------------------------------------------------- the sync actor
\* the snapshots a source dataset can hold: two of them share a datetime
SourceSnapshots ==
    { [uuid |-> 1, datetime |-> 1], [uuid |-> 2, datetime |-> 0],
      [uuid |-> 3, datetime |-> 1] }

\* the lists the dataset may answer with: the snapshots of a set in any order
SourceLists ==
    { list \in UNION { [1..n -> SourceSnapshots] : n \in 0..Cardinality(SourceSnapshots) } :
         \A i, j \in 1..Len(list) : i # j => list[i] # list[j] }

\* the received uuids of the container's snapshots; 9 is the uuid of a source
\* snapshot that exists no more
ReceivedSets == SUBSET { 1, 2, 3, 9 }

\* a is older than b: by datetime, by uuid when the datetimes are equal
Older(a, b) ==
    \/ a.datetime < b.datetime
    \/ a.datetime = b.datetime /\ a.uuid < b.uuid

\* a candidate selection that takes the first unreceived snapshot listed
PickFirstListed(source, received) ==
    LET unreceived == SelectSeq(source, LAMBDA s : s.uuid \notin received)
    IN  IF unreceived = << >> THEN None ELSE Some(Head(unreceived))

\* PickingCandidate: the oldest source snapshot whose uuid is not received
PickCandidate(source, received) ==
    LET unreceived == { s \in Range(source) : s.uuid \notin received }
    IN  IF unreceived = {} THEN None
        ELSE Some(CHOOSE c \in unreceived :
                     \A s \in unreceived : s = c \/ Older(c, s))

\* the parent of a transfer: the newest source snapshot that is received
PickParent(source, received) ==
    LET common == { s \in Range(source) : s.uuid \in received }
    IN  IF common = {} THEN None
        ELSE Some(CHOOSE p \in common : \A s \in common : s = p \/ Older(s, p))

\* a variant of Overlapping that takes no tick for overlapping
OverlappingNever(state) == FALSE

\* a tick overlaps a cycle when the actor is not Idle
Overlapping(state) == state # "Idle"

\* a SyncTick is sent to the actor: the one the last cycle scheduled, or one more
PostSyncTick ==
    /\ sync_actor.state # "none"
    /\ sync_actor.ticks < MaxMailbox + 1
    /\ sync_actor' = [sync_actor EXCEPT !.ticks = @ + 1, !.handled = "none"]
    /\ UNCHANGED << dataset, observer, envelope, applied, worker, filesystem, registry, cached >>

\* SyncTick: dropped while a cycle is active; in Idle a cycle begins and the
\* dataset and the container are asked for their snapshots
HandleSyncTick ==
    /\ sync_actor.state # "none"
    /\ sync_actor.ticks > 0
    /\ IF Overlapping(sync_actor.state)
       THEN sync_actor' = [sync_actor EXCEPT !.ticks = @ - 1, !.handled = "dropped"]
       ELSE sync_actor' = [sync_actor EXCEPT !.ticks = @ - 1, !.handled = "begun",
                                             !.state = "PickingCandidate",
                                             !.cycles = @ + 1]
    /\ UNCHANGED << dataset, observer, envelope, applied, worker, filesystem, registry, cached >>

\* the snapshots arrived: with a candidate the source hold is asked for,
\* without one the cycle ends and the next tick is scheduled
CandidatePicked ==
    /\ sync_actor.state = "PickingCandidate"
    /\ LET candidate == PickCandidate(sync_actor.source, sync_actor.received)
       IN  sync_actor' =
              [sync_actor EXCEPT
                 !.handled = "picked",
                 !.candidate = candidate,
                 !.parent = IF candidate = None THEN None
                            ELSE PickParent(sync_actor.source, sync_actor.received),
                 !.state = IF candidate = None THEN "Idle" ELSE "AcquiringSourceHold",
                 !.cycles = IF candidate = None THEN @ - 1 ELSE @]
    /\ UNCHANGED << dataset, observer, envelope, applied, worker, filesystem, registry, cached >>

\* HolderReady, ReceiverReady, SenderReady: the helper asked for is there and
\* the next one is asked for; with the sender the transfer begins
HelperReady ==
    /\ sync_actor.state \in {"AcquiringSourceHold", "AcquiringReceiver", "AcquiringSender"}
    /\ sync_actor' =
          [sync_actor EXCEPT
             !.handled = "ready",
             !.holders = IF sync_actor.state = "AcquiringSourceHold" THEN @ + 1 ELSE @,
             !.receivers = IF sync_actor.state = "AcquiringReceiver" THEN @ + 1 ELSE @,
             !.senders = IF sync_actor.state = "AcquiringSender" THEN @ + 1 ELSE @,
             !.state = CASE sync_actor.state = "AcquiringSourceHold" -> "AcquiringReceiver"
                         [] sync_actor.state = "AcquiringReceiver" -> "AcquiringSender"
                         [] OTHER -> "Transferring"]
    /\ UNCHANGED << dataset, observer, envelope, applied, worker, filesystem, registry, cached >>

\* SenderFinished and ReceiverFinished both reported Ok: the candidate is
\* received and the source hold is released next
TransferFinished ==
    /\ sync_actor.state = "Transferring"
    /\ sync_actor' =
          [sync_actor EXCEPT
             !.handled = "transferred",
             !.senders = @ - 1, !.receivers = @ - 1,
             !.received = @ \cup { sync_actor.candidate[1].uuid },
             !.state = "ReleasingHolds"]
    /\ UNCHANGED << dataset, observer, envelope, applied, worker, filesystem, registry, cached >>

\* a failure while helpers are acquired or while transferring: the helpers
\* are stopped and the cycle ends
CycleFails ==
    /\ sync_actor.state \in {"AcquiringSourceHold", "AcquiringReceiver",
                             "AcquiringSender", "Transferring"}
    /\ sync_actor' =
          [sync_actor EXCEPT
             !.handled = "failed",
             !.holders = 0, !.receivers = 0, !.senders = 0,
             !.state = "Idle", !.cycles = @ - 1]
    /\ UNCHANGED << dataset, observer, envelope, applied, worker, filesystem, registry, cached >>

\* ReleasingHolds: the source holder is stopped and the cycle ends
HoldsReleased ==
    /\ sync_actor.state = "ReleasingHolds"
    /\ sync_actor' =
          [sync_actor EXCEPT
             !.handled = "released",
             !.holders = @ - 1, !.state = "Idle", !.cycles = @ - 1]
    /\ UNCHANGED << dataset, observer, envelope, applied, worker, filesystem, registry, cached >>

SyncInit ==
    /\ DatasetIdle /\ NoObserver /\ NoEnvelope
    /\ applied = NotApplied /\ worker = NoWorker /\ filesystem = NoFilesystem
    /\ registry = NoRegistry /\ cached = NoCached
    /\ \E source \in SourceLists, received \in ReceivedSets :
          sync_actor = [state |-> "Idle", source |-> source, received |-> received,
                        candidate |-> None, parent |-> None, ticks |-> 1,
                        handled |-> "none", cycles |-> 0,
                        holders |-> 0, receivers |-> 0, senders |-> 0]

SyncNext ==
    \/ PostSyncTick
    \/ HandleSyncTick
    \/ CandidatePicked
    \/ HelperReady
    \/ TransferFinished
    \/ CycleFails
    \/ HoldsReleased

SyncSpec == SyncInit /\ [][SyncNext]_vars

\* C31: at most one sync cycle is active at any time, with at most one
\* holder, one receiver and one sender; a SyncTick handled while the actor is
\* not Idle is dropped: it changes neither the state nor the candidate and
\* starts no selection and no helper
C31_OneActiveCycle ==
    /\ [][ sync_actor.state # "none" =>
             /\ sync_actor'.cycles <= 1
             /\ sync_actor'.holders <= 1
             /\ sync_actor'.receivers <= 1
             /\ sync_actor'.senders <= 1 ]_vars
    /\ [][ (sync_actor.state \notin {"none", "Idle"} /\ sync_actor'.ticks < sync_actor.ticks) =>
             /\ sync_actor'.handled = "dropped"
             /\ sync_actor' = [sync_actor EXCEPT !.ticks = @ - 1, !.handled = "dropped"] ]_vars

\* C31 witness: a tick was dropped while a transfer was under way with its
\* holder, its receiver and its sender
C31_TickDroppedInTransfer ==
    /\ sync_actor.state = "Transferring"
    /\ sync_actor.handled = "dropped"
    /\ sync_actor.holders = 1 /\ sync_actor.receivers = 1 /\ sync_actor.senders = 1
    /\ sync_actor.cycles = 1

\* the source snapshots of the sync actor whose uuid is not received
Unreceived == { s \in Range(sync_actor.source) : s.uuid \notin sync_actor.received }

\* C32: the candidate of a sync is determined by the set of source
\* snapshots and the set of received uuids, whatever the order they are
\* listed in: it is the unreceived source snapshot of the least datetime and,
\* among those of that datetime, of the least uuid; when every source
\* snapshot is received there is no candidate and the actor is Idle again
C32_CandidateDetermined ==
    sync_actor.state # "none" /\ sync_actor.handled = "picked" =>
       IF Unreceived = {}
       THEN sync_actor.candidate = None /\ sync_actor.state = "Idle"
       ELSE /\ sync_actor.candidate # None
            /\ sync_actor.candidate[1] \in Unreceived
            /\ \A s \in Unreceived :
                  \/ sync_actor.candidate[1].datetime < s.datetime
                  \/ /\ sync_actor.candidate[1].datetime = s.datetime
                     /\ sync_actor.candidate[1].uuid <= s.uuid
            /\ sync_actor.state = "AcquiringSourceHold"

\* C32 witness: the candidate was picked among two unreceived snapshots of
\* the same datetime, and it is not the one listed first
C32_TiebreakByUuid ==
    /\ sync_actor.state # "none" /\ sync_actor.handled = "picked"
    /\ sync_actor.candidate # None
    /\ \E s \in Unreceived :
          /\ s # sync_actor.candidate[1]
          /\ s.datetime = sync_actor.candidate[1].datetime
    /\ \E i \in 1..Len(sync_actor.source) :
          /\ sync_actor.source[i] \in Unreceived
          /\ sync_actor.source[i] # sync_actor.candidate[1]
          /\ \A j \in 1..(i - 1) : sync_actor.source[j] \notin Unreceived

\* the uuids a hold record names
UuidsOf(r) == {r.send} \cup Range(r.parent)

\* C33: a snapshot uuid that several hold records name stays protected until
\* the Finished message of every child of those records has been handled:
\* in every step of the running actor other than its stop, each record whose
\* child's Finished is not the message handled keeps its uuids held, in the
\* snapshot list and on the filesystem
C33_SharedHoldSurvives ==
    [][ (status = "running" /\ ~Takes("Stop")) =>
          \A r \in Range(active_sends_holds) :
             ~(Handles("Finished") /\ Head(mailbox).a = r.actor) =>
                \A u \in UuidsOf(r) :
                   /\ u \in HeldUuids'
                   /\ u \in SnapshotUuids(snapshots) => u \in SnapshotUuids(snapshots')
                   /\ u \in disk => u \in disk' ]_vars

\* C33 witness: of two children that held the same snapshot one has stopped
\* and its Finished was handled; the other is alive, and the snapshot is
\* still held, listed and on the filesystem though the rule does not retain it
C33_OtherChildStillHolds ==
    /\ status = "running"
    /\ \E a \in ActorIds : \E b \in ActorIds :
          /\ children[a] = "stopped" /\ HoldsOf(a) = {}
          /\ \A i \in 1..Len(mailbox) : mailbox[i].type # "Finished"
          /\ children[b] = "live"
          /\ \E r \in HoldsOf(b) :
                \E i \in 1..Len(snapshots) :
                   /\ snapshots[i].uuid = r.send
                   /\ r.send \in RequestSends
                   /\ r.send \in disk
                   /\ i \notin RuleKeeps(snapshots, now, RuleRecent)

\* C34: when the start of a sender or holder child fails after the uuids
\* were resolved, the hold set stays as it was and the one ready reply, which
\* carries no address, is posted all the same; so every hold record is that
\* of a child that did start
C34_NoHoldForFailedStart ==
    /\ [][ (pc \in {"startingSender", "startingHolder"} /\ pc' = "idle"
            /\ children'[cur.actor] = "failed") =>
              /\ active_sends_holds' = active_sends_holds
              /\ Len(ready') = 1
              /\ ready'[1].kind = IF pc = "startingSender" THEN "SenderReady"
                                  ELSE "HolderReady"
              /\ ready'[1].addr = None ]_vars
    /\ [](\A r \in Range(active_sends_holds) :
            children[r.actor] \in {"live", "stopping", "stopped"})

\* C34 witness: the start of a holder failed, its reply without an address
\* was posted, and the hold set holds only the record of another child
C34_FailedStartReplied ==
    /\ Len(ready) = 1 /\ ready[1].kind = "HolderReady" /\ ready[1].addr = None
    /\ \E a \in ActorIds : \E b \in ActorIds :
          /\ children[a] = "failed" /\ HoldsOf(a) = {}
          /\ children[b] = "live" /\ HoldsOf(b) # {}

\* ---------------------------------------------------------------- the entity registry
\* the pools handed to attach_pool: a name, a filesystem uuid and a mount
\* point, the path as the sequence of its components
PoolEntities ==
    [ name : {"tank", "backup", "scratch"},
      uuid : 1..3,
      mountpoint_path : { << "mnt", "tank" >>, << "mnt", "backup" >>, << "srv" >> } ]

\* Entities::pool, pool_by_uuid and pool_by_mountpoint: the first pool found
Find(pools, Test(_)) ==
    LET found == SelectSeq(pools, Test) IN IF found = << >> THEN None ELSE Some(Head(found))
pool(pools, name) == Find(pools, LAMBDA p : p.name = name)
pool_by_uuid(pools, uuid) == Find(pools, LAMBDA p : p.uuid = uuid)
pool_by_mountpoint(pools, path) == Find(pools, LAMBDA p : p.mountpoint_path = path)

\* a variant of attach_pool that looks at the name only
attach_pool_by_name(pools, p) ==
    IF pool(pools, p.name) # None
    THEN [pools |-> pools, returned |-> "Pool name already exists."]
    ELSE [pools |-> Append(pools, p), returned |-> "Ok"]

\* Entities::attach_pool: the pool list and what the call returns
attach_pool(pools, p) ==
    IF pool(pools, p.name) # None
    THEN [pools |-> pools, returned |-> "Pool name already exists."]
    ELSE IF pool_by_uuid(pools, p.uuid) # None
    THEN [pools |-> pools, returned |-> "uuid already used by pool."]
    ELSE IF pool_by_mountpoint(pools, p.mountpoint_path) # None
    THEN [pools |-> pools, returned |-> "mountpoint already used by pool."]
    ELSE [pools |-> Append(pools, p), returned |-> "Ok"]

\* attach_pool is called with some pool
AttachPool ==
    /\ registry.returned # "none"
    /\ \E p \in PoolEntities :
          registry' = [pools |-> attach_pool(registry.pools, p).pools,
                       given |-> Some(p),
                       returned |-> attach_pool(registry.pools, p).returned]
    /\ UNCHANGED << dataset, observer, envelope, applied, worker, filesystem, sync_actor, cached >>

\* Entities::default(): no pool is attached
RegistryInit ==
    /\ DatasetIdle /\ NoObserver /\ NoEnvelope
    /\ applied = NotApplied /\ worker = NoWorker /\ filesystem = NoFilesystem
    /\ sync_actor = NoSync /\ cached = NoCached
    /\ registry = [pools |-> << >>, given |-> None, returned |-> "started"]

RegistryNext == AttachPool

RegistrySpec == RegistryInit /\ [][RegistryNext]_vars

\* the pool given collides with an attached pool
Collides(pools, p) ==
    \E i \in 1..Len(pools) :
       \/ pools[i].name = p.name
       \/ pools[i].uuid = p.uuid
       \/ pools[i].mountpoint_path = p.mountpoint_path

\* C35: the attached pools have pairwise distinct names, uuids and mount
\* points; an attach_pool that collides with an attached pool on one of the
\* three returns an error and leaves the pool list as it was, and one that
\* does not collide returns Ok and appends the pool given
C35_PoolsDistinct ==
    /\ [](\A i, j \in 1..Len(registry.pools) :
            i # j => /\ registry.pools[i].name # registry.pools[j].name
                     /\ registry.pools[i].uuid # registry.pools[j].uuid
                     /\ registry.pools[i].mountpoint_path # registry.pools[j].mountpoint_path)
    /\ [][ registry' # registry =>
             IF Collides(registry.pools, registry'.given[1])
             THEN registry'.returned # "Ok" /\ registry'.pools = registry.pools
             ELSE /\ registry'.returned = "Ok"
                  /\ registry'.pools = Append(registry.pools, registry'.given[1]) ]_vars

\* C35 witness: with two pools attached, a pool that differs from both in
\* name and uuid but has the mount point of one was refused
C35_MountpointRefused ==
    /\ Len(registry.pools) = 2
    /\ registry.given # None
    /\ registry.returned \notin {"Ok", "started"}
    /\ \A i \in 1..2 : /\ registry.pools[i].name # registry.given[1].name
                       /\ registry.pools[i].uuid # registry.given[1].uuid
    /\ \E i \in 1..2 : registry.pools[i].mountpoint_path = registry.given[1].mountpoint_path

\* ---------------------------------------------------------------- the cached dataset model
\* the subvolumes of the dataset's snapshot directory when the model is
\* built, in the order the filesystem lists them, and the instant it is then
CachedDisks ==
    { [subvolumes |-> << >>, now |-> 0],
      [subvolumes |-> << [uuid |-> 1, name |-> "lost+found"] >>, now |-> 0],
      [subvolumes |-> << [uuid |-> 1, name |-> FormatTimestamp(0)] >>, now |-> 0],
      [subvolumes |-> << [uuid |-> 1, name |-> FormatTimestamp(1)],
                   [uuid |-> 2, name |-> "lost+found"],
                   [uuid |-> 3, name |-> FormatTimestamp(0)] >>, now |-> 1] }

\* the filter_map of BtrfsDataset::snapshots: the subvolumes whose file name
\* parses as a timestamp, with that datetime
ListedSnapshots(listing) ==
    LET parsable == SelectSeq(listing, LAMBDA v : ParseTimestamp(v.name) # None)
    IN  [ i \in 1..Len(parsable) |->
            [subvolume |-> parsable[i], datetime |-> ParseTimestamp(parsable[i].name)[1]] ]

\* BtrfsDataset::snapshots: the cache is filled from the filesystem when it
\* is empty, and a copy of it returned; a listing that fails leaves it empty
dataset_snapshots(c, listed) ==
    IF c.cache = None /\ ~listed
    THEN [c EXCEPT !.returned = [fn |-> "snapshots", ok |-> FALSE, value |-> << >>]]
    ELSE LET cache == IF c.cache = None THEN ListedSnapshots(c.disk) ELSE c.cache[1]
         IN  [c EXCEPT !.cache = Some(cache),
                       !.returned = [fn |-> "snapshots", ok |-> TRUE, value |-> cache]]

\* sort_unstable_by_key(|s| s.datetime) and pop: a snapshot of the list that
\* none of the list is younger than
Popped(list) ==
    IF list = << >> THEN None
    ELSE Some(CHOOSE s \in Range(list) : \A t \in Range(list) : t.datetime <= s.datetime)

\* BtrfsDataset::latest_snapshot
latest_snapshot(c, listed) ==
    LET read == dataset_snapshots(c, listed)
    IN  IF ~read.returned.ok
        THEN [read EXCEPT !.returned.fn = "latest_snapshot"]
        ELSE [read EXCEPT !.returned = [fn |-> "latest_snapshot", ok |-> TRUE,
                                        value |-> Popped(read.returned.value)]]

\* a create_local_snapshot that leaves the cache as it is
create_local_snapshot_cached(c, created) ==
    IF ~created \/ \E i \in 1..Len(c.disk) : c.disk[i].name = FormatTimestamp(c.now)
    THEN [c EXCEPT !.returned = [fn |-> "create_local_snapshot", ok |-> FALSE, value |-> << >>]]
    ELSE [c EXCEPT !.disk = Append(@, [uuid |-> Len(c.disk) + 1, name |-> FormatTimestamp(c.now)]),
                   !.returned = [fn |-> "create_local_snapshot", ok |-> TRUE, value |-> << >>]]

\* BtrfsDataset::create_local_snapshot: the snapshot named after the instant
\* is created and the cache invalidated; a snapshot_subvolume that fails, as
\* it does when the name is taken, returns its error before that
create_local_snapshot(c, created) ==
    IF ~created \/ \E i \in 1..Len(c.disk) : c.disk[i].name = FormatTimestamp(c.now)
    THEN [c EXCEPT !.returned = [fn |-> "create_local_snapshot", ok |-> FALSE, value |-> << >>]]
    ELSE [c EXCEPT !.disk = Append(@, [uuid |-> Len(c.disk) + 1, name |-> FormatTimestamp(c.now)]),
                   !.cache = None,
                   !.invalidated = @ \/ c.cache # None,
                   !.returned = [fn |-> "create_local_snapshot", ok |-> TRUE, value |-> << >>]]

\* the three calls, and the clock
CallSnapshots ==
    /\ cached.returned # << >>
    /\ \E listed \in BOOLEAN : cached' = dataset_snapshots(cached, listed)
    /\ UNCHANGED << dataset, observer, envelope, applied, worker, filesystem, sync_actor, registry >>

CallLatestSnapshot ==
    /\ cached.returned # << >>
    /\ \E listed \in BOOLEAN : cached' = latest_snapshot(cached, listed)
    /\ UNCHANGED << dataset, observer, envelope, applied, worker, filesystem, sync_actor, registry >>

CallCreateLocalSnapshot ==
    /\ cached.returned # << >>
    /\ \E created \in BOOLEAN : cached' = create_local_snapshot(cached, created)
    /\ UNCHANGED << dataset, observer, envelope, applied, worker, filesystem, sync_actor, registry >>

CachedTick ==
    /\ cached.returned # << >>
    /\ cached.now + 1 \in ReceiveInstants
    /\ cached' = [cached EXCEPT !.now = @ + 1]
    /\ UNCHANGED << dataset, observer, envelope, applied, worker, filesystem, sync_actor, registry >>

\* BtrfsDataset::new and validate: the cache is empty
CachedInit ==
    /\ DatasetIdle /\ NoObserver /\ NoEnvelope
    /\ applied = NotApplied /\ worker = NoWorker /\ filesystem = NoFilesystem
    /\ sync_actor = NoSync /\ registry = NoRegistry
    /\ \E d \in CachedDisks :
          cached = [disk |-> d.subvolumes, now |-> d.now, cache |-> None, invalidated |-> FALSE,
                    returned |-> [fn |-> "new", ok |-> TRUE, value |-> << >>]]

CachedNext ==
    \/ CallSnapshots
    \/ CallLatestSnapshot
    \/ CallCreateLocalSnapshot
    \/ CachedTick

CachedSpec == CachedInit /\ [][CachedNext]_vars

\* the snapshots on the disk of the cached dataset: the subvolumes named
\* after an instant, each with that instant as its datetime
OnDisk ==
    { r \in [subvolume : Range(cached.disk), datetime : ReceiveInstants] :
        FormatTimestamp(r.datetime) = r.subvolume.name }

\* C36: whatever calls came before, a snapshots() that returns Ok returns
\* the snapshots that are on the disk now, and a latest_snapshot() that
\* returns Ok returns the one of the greatest datetime, or none when the
\* disk holds no snapshot
C36_CacheCoherent ==
    /\ (cached.returned # << >> /\ cached.returned.fn = "snapshots" /\ cached.returned.ok) =>
          Range(cached.returned.value) = OnDisk
    /\ (cached.returned # << >> /\ cached.returned.fn = "latest_snapshot" /\ cached.returned.ok) =>
          IF OnDisk = {} THEN cached.returned.value = None
          ELSE /\ cached.returned.value # None
               /\ cached.returned.value[1] \in OnDisk
               /\ \A s \in OnDisk : s.datetime <= cached.returned.value[1].datetime

\* C36 witness: a create invalidated a filled cache, and the snapshots()
\* after it returned the snapshot created, which is listed last and is the
\* youngest of three subvolumes of which one is no snapshot
C36_ReadAfterCreate ==
    /\ cached.returned # << >>
    /\ cached.returned.fn = "snapshots" /\ cached.returned.ok
    /\ cached.invalidated
    /\ Len(cached.disk) > 3
    /\ \E i \in 1..Len(cached.returned.value) :
          cached.returned.value[i].subvolume = cached.disk[Len(cached.disk)]

\* C37: the jobs a round of the worker's job loop runs are ready jobs of that
\* round; a round none of whose jobs fails runs every one of them; the worker
\* returns the error of the first job that fails, with the ready jobs after
\* it left out of the round; and it returns Ok only from a round that found
\* no ready job, which is also the only way the loop ends without an error
C37_RoundsRunReadyJobs ==
    /\ worker.round \subseteq worker.ready
    /\ (worker.pc = "jobs" /\ worker.rounds > 0) =>
          /\ worker.failed = 0
          /\ worker.ready # {}
          /\ worker.round = worker.ready
    /\ (worker.result = "Err" /\ worker.rounds > 0) =>
          /\ worker.pc = "returned"
          /\ worker.failed \in worker.ready
          /\ worker.round = { k \in worker.ready : k <= worker.failed }
    /\ worker.result = "Ok" =>
          /\ worker.pc = "returned"
          /\ worker.ready = {}
    /\ (worker.pc = "returned" /\ worker.ready = {}) =>
          \/ worker.result = "Ok"
          \/ worker.result = "Err" /\ worker.rounds = 0 /\ worker.ran = {}

\* C37 witness: after a round in which every ready job ran, a job of the
\* second round failed and the worker returned the error with a ready job of
\* that round not run
C37_RestOfRoundSkipped ==
    /\ worker.pc = "returned"
    /\ worker.result = "Err"
    /\ worker.rounds = 2
    /\ worker.failed \in worker.ready
    /\ \E k \in worker.ready : k > worker.failed /\ k \notin worker.ran

\* C38: a PruneTick waits in a timer or in the mailbox only in an actor whose
\* dataset has a retention rule and whose prune schedule was derived from it,
\* and every PruneTick that is handled finds the retention rule and leaves
\* the actor as it was, not panicked
C38_PruneTickHasRetention ==
    /\ []( ( \/ \E i \in 1..Len(timers) : timers[i].msg = "Prune"
             \/ \E i \in 1..Len(mailbox) : mailbox[i].type = "Prune" ) =>
              /\ model.pruning
              /\ model.snapshot_retention # None
              /\ prune_schedule = ConvertSchedule(
                     Some(model.snapshot_retention[1].evaluation_schedule)).value
              /\ prune_schedule # None )
    /\ [][ HandlePrune => /\ model.snapshot_retention # None
                          /\ status' = status
                          /\ status' # "panicked" ]_vars

\* C38 witness: a PruneTick was handled, by an actor that still runs and
\* whose dataset has its retention rule
C38_PruneTickHandled ==
    /\ status = "running"
    /\ published # << >>
    /\ published[1].event = "DatasetPrune"
    /\ model.pruning
    /\ model.snapshot_retention # None
    /\ ScheduledTicks(timers, "Prune") = 0

====
